---- MODULE Spec2Model ----
(***************************************************************************)
(* Model of the AHRS400 reader of fdas3: the frame reader ahrs_get_msg     *)
(* (header search, checksum, resynchronisation inside the work buffer),    *)
(* the conversion of an accepted payload, and the read loop of             *)
(* ahrs400-read that calls it and fans the record out to the sinks, the    *)
(* start-up of ahrs400-read (outputs, port, handshake) and the sampling    *)
(* loop of vcmdas1-read.                                                   *)
(*                                                                         *)
(* The byte source is the serial stream: every read delivers one byte or   *)
(* end-of-stream / a read error.  stream is the history of the bytes the   *)
(* source has delivered; the clock advances by one byte time of the serial *)
(* line for every byte delivered.  Doubles are modelled as exact rationals *)
(* [num, den, exp10] (num / den * 10^exp10; angles in units of pi).        *)
(***************************************************************************)
EXTENDS Integers, Sequences, FiniteSets, TLC

(***************************************************************************)
(* Bounds of the model.                                                    *)
(***************************************************************************)
MaxSize == 3
MaxStream == 9
MaxTicks == 2
MaxReads == 3
MaxArgs == 2
ByteVals == {0, 1, 255}

(***************************************************************************)
(* Program constants.                                                      *)
(***************************************************************************)
AHRS_DATA_HEADER == 255
AHRS_ANGLE_PAYLOAD_LEN == 28
EXIT_FAILURE == 1
\* one byte time of the serial line in ns: 10 bits at 38400 baud
ByteTimeNs == 260417
NsPerSec == 1000000000
\* the uint8_t that holds work_ptr
Uint8Mod == 256
\* content of memory that was never written
Uninit == -2
\* recv_timestamp before any assignment
NoStamp == -3
\* AHRS message codes
PING == 82
PING_RESPONSE == 72
VOLTAGE_MODE == 114
VOLTAGE_MODE_RESPONSE == 82
SCALED_MODE == 99
SCALED_MODE_RESPONSE == 67
ANGLE_MODE == 97
ANGLE_MODE_RESPONSE == 65
POLLED_MODE == 80
CONTINUOUS_MODE == 67
\* VCM-DAS-1 register bit masks and channel count
DONE_BIT == 64
BUSY_BIT == 128
NumChannels == 16

VARIABLES
    size,            \* payload length the reader is called with
    feed,            \* per stream position, the bytes the source may deliver
    out,             \* struct output_streams: the configured sinks
    clock,           \* CLOCK_REALTIME, a struct timespec
    stream,          \* bytes delivered by the source so far
    eof,             \* the source reported end-of-stream or an error
    reads,           \* number of read attempts made on the source
    pc,              \* position of the single thread of control
    work,            \* ahrs_get_msg: work buffer, offsets 0..size
    work_ptr,        \* ahrs_get_msg: number of retained bytes
    header_found,    \* ahrs_get_msg: a header was found in the work buffer
    fill,            \* offset the running fread writes next
    recv_timestamp,  \* *recv_timestamp of the caller
    payload,         \* payload buffer of the caller
    ret,             \* return value of ahrs_get_msg
    data,            \* converted record of the last accepted frame
    exit_status,     \* exit status of the process, NoExit while it runs
    written,         \* per sink, number of write attempts
    cand,            \* history: the candidate frame of the current iteration
    rejected,        \* history: timestamps captured for rejected candidates
    resync,          \* history: the last resynchronisation of this call
    call,            \* history: calls of ahrs_get_msg so far, stream position at entry
    frames,          \* history: accepted frames
    arguments,       \* struct arguments: which outputs were asked for
    fds,             \* file descriptors open in the process
    failing,         \* environment: the sinks whose writes fail
    hs,              \* history: writes, reads and purges of the start-up
    sinklog,         \* history: write attempts on the sinks, in order
    adc,             \* vcmdas1-read: tick count and the sample read
    argv             \* argp_parse: the words of the command line left to parse

vars == <<size, feed, out, clock, stream, eof, reads, pc, work, work_ptr,
          header_found, fill, recv_timestamp, payload, ret, data,
          exit_status, written, cand, rejected, resync, call, frames,
          arguments, fds, failing, hs, sinklog, adc, argv>>

NoExit == "running"
NoData == "none"

(***************************************************************************)
(* Clock.                                                                  *)
(***************************************************************************)
StartClock == [tv_sec |-> 1, tv_nsec |-> 999000000]

AddNs(t, ns) ==
    LET n == t.tv_nsec + ns
    IN  [tv_sec |-> t.tv_sec + (n \div NsPerSec), tv_nsec |-> n % NsPerSec]

\* the clock reading after k bytes were delivered
RECURSIVE ClockAt(_)
ClockAt(k) == IF k = 0 THEN StartClock ELSE AddNs(ClockAt(k - 1), ByteTimeNs)

\* rc is the return value of clock_gettime, t the timespec it filled.
\* The result is a uint64_t; the bounded clock stays far below 2^64.
get_time_us(rc, t) ==
    IF rc # 0 THEN 0 ELSE t.tv_sec * 1000 + (t.tv_nsec \div 1000)

\* clock_gettime(CLOCK_REALTIME, &t) with a valid pointer succeeds
ClockGettimeRc == 0

\* line 315-316: *recv_timestamp = get_time_us()
StampKeepFirst(old, t) == IF old = NoStamp THEN get_time_us(ClockGettimeRc, t) ELSE old
Stamp(old, t) == get_time_us(ClockGettimeRc, t)

(***************************************************************************)
(* Checksum and rescan of the work buffer.                                 *)
(***************************************************************************)
RECURSIVE ChecksumFrom(_, _, _, _)
ChecksumFrom(w, i, n, acc) ==
    IF i >= n THEN acc
    ELSE IF n - i = 1 THEN (acc + w[i]) % Uint8Mod
    ELSE \* the turns i..m-1 of the loop and the turns m..n-1: the uint8_t
         \* sum wraps at every addition, which makes it the sum of the two
         LET m == (i + n) \div 2
         IN  (ChecksumFrom(w, i, m, acc) + ChecksumFrom(w, m, n, 0))
                % Uint8Mod

checksumWithTrailer(w, n) == ChecksumFrom(w, 0, n + 1, 0)
\* uint8_t checksum over payload[0..size-1], wrapping at every addition
checksum(w, n) == ChecksumFrom(w, 0, n, 0)

RescanStartOne == 2 - 1
\* first offset the rescan of the work buffer looks at
RescanStart == 0

HeaderOffsetsNone(w, n) == {}
\* offsets of the work buffer that hold a header byte, as the rescan sees them
HeaderOffsets(w, n) == {i \in RescanStart..n : w[i] = AHRS_DATA_HEADER}

MinOf(S) == CHOOSE x \in S : \A y \in S : x <= y

\* the offset at which the rescan loop breaks
FirstHeader(w, n) == MinOf(HeaderOffsets(w, n))

MemmoveKeepHeader(w, n, i) ==
    [j \in 0..n |-> IF j < n - i + 1 /\ i + j <= n THEN w[i + j] ELSE w[j]]
\* memmove(work, work + i + 1, sizeof(work) - i - 1)
Memmove(w, n, i) ==
    [j \in 0..n |-> IF j < n - i THEN w[i + 1 + j] ELSE w[j]]

WorkPtrKeep(old, n, i) == old
\* work_ptr = sizeof(work) - i - 1, stored in a uint8_t
WorkPtrAfter(old, n, i) == (n - i) % Uint8Mod

WorkPtrStale(old) == old
\* line 336: work_ptr = 0 before the rescan
WorkPtrReset(old) == 0

(***************************************************************************)
(* Conversion of an accepted payload.                                      *)
(***************************************************************************)
Rat(n, d, e) == [num |-> n, den |-> d, exp10 |-> e]

\* the two bytes taken least significant first
pack_int16LittleEndian(p, index) ==
    LET v == p[index * 2] + p[index * 2 + 1] * 256
    IN  IF v >= 32768 THEN v - 65536 ELSE v

\* int16_t from two bytes, most significant first
pack_int16(p, index) ==
    LET v == p[index * 2 + 1] + p[index * 2] * 256
    IN  IF v >= 32768 THEN v - 65536 ELSE v

raw_to_angleHalfRange(raw) == Rat(raw, 16384, 0)
raw_to_angle(raw) == Rat(raw, 32768, 0)                 \* in units of pi
raw_to_gyro(raw) == Rat(raw * 5, 3 * 32768, 0)          \* in units of pi
raw_to_accel(raw) == Rat(raw * 588, 327680, 0)
raw_to_mag(raw) == Rat(raw * 1875, 32768, -7)
raw_to_temperatureNoOffset(raw) == Rat(raw * 5 * 1111, 102400, 0)
raw_to_temperature(raw) == Rat((raw * 5 - 5632) * 1111, 102400, 0)
raw_to_time(raw) == Rat((-raw) * 79, 1, -8)

ahrs_parse_angle(p) ==
    [angle |-> [k \in 0..2 |-> raw_to_angle(pack_int16(p, k))],
     gyro |-> [k \in 0..2 |-> raw_to_gyro(pack_int16(p, 3 + k))],
     accel |-> [k \in 0..2 |-> raw_to_accel(pack_int16(p, 6 + k))],
     mag |-> [k \in 0..2 |-> raw_to_mag(pack_int16(p, 9 + k))],
     temperature |-> raw_to_temperature(pack_int16(p, 12)),
     sensor_time |-> raw_to_time(pack_int16(p, 13))]

(***************************************************************************)
(* The byte source.                                                        *)
(***************************************************************************)
\* the bytes the source may deliver next; empty at the end of the feed
NextBytes == IF Len(stream) < Len(feed) THEN feed[Len(stream) + 1] ELSE {}

\* one byte b is read from the source
Deliver(b) ==
    /\ b \in NextBytes
    /\ stream' = Append(stream, b)
    /\ clock' = AddNs(clock, ByteTimeNs)
    /\ reads' = reads + 1
    /\ eof' = eof

\* a read hits end-of-stream or fails
DeliverEOF ==
    /\ eof' = TRUE
    /\ reads' = reads + 1
    /\ UNCHANGED <<stream, clock>>

SourceIdle == UNCHANGED <<stream, clock, reads, eof>>

SessionIdle ==
    UNCHANGED <<arguments, fds, failing, hs, sinklog, adc, argv>>

(***************************************************************************)
(* The sinks.  A write attempt on a sink is recorded with the record it    *)
(* is made for (the number of frames accepted or of samples taken so far,  *)
(* 0 for the header of the text log), the parts of the record written, in  *)
(* order, and whether the write succeeded.  The MAVLink encoder is         *)
(* external: an encoded message is one part named after its message type.  *)
(***************************************************************************)
Sinks == {"text", "bin", "udp"}

MavlinkPart(name) == [kind |-> "mavlink", name |-> name]
TimestampPart == [kind |-> "time_be64", name |-> "get_time_us"]
TextPart(name) == [kind |-> "text", name |-> name]

WriteAttempt(bad, sink, rec, body) ==
    [sink |-> sink, rec |-> rec, body |-> body, ok |-> sink \notin bad]

\* struct output_streams output_streams = {-1};
NoStreams == [udp_sock |-> -1, binary_log |-> FALSE, text_log |-> FALSE]

\* the descriptor the next open, fopen or socket returns
LowestFree(F) == MinOf({n \in 0..Cardinality(F) : n \notin F})

\* fopen of the text log, header line
OpenText(args, st, bad, failAt) ==
    IF ~args.text_log \/ ~st.ok THEN st
    ELSE IF failAt = "text" THEN [st EXCEPT !.ok = FALSE]
    ELSE [st EXCEPT !.out.text_log = TRUE,
                    !.fds = @ \cup {LowestFree(st.fds)},
                    !.log = Append(@, WriteAttempt(bad, "text", 0,
                                                   <<TextPart("header")>>))]

\* fopen of the binary log
OpenBinary(args, st, failAt) ==
    IF ~args.binary_log \/ ~st.ok THEN st
    ELSE IF failAt = "binary" THEN [st EXCEPT !.ok = FALSE]
    ELSE [st EXCEPT !.out.binary_log = TRUE,
                    !.fds = @ \cup {LowestFree(st.fds)}]

\* gethostbyname, socket, connect
OpenUdp(args, st, failAt) ==
    IF ~args.use_udp \/ ~st.ok THEN st
    ELSE IF failAt \in {"host", "family", "socket"}
         THEN [st EXCEPT !.ok = FALSE]
    ELSE [st EXCEPT !.out.udp_sock = LowestFree(st.fds),
                    !.fds = @ \cup {LowestFree(st.fds)},
                    !.ok = (failAt # "connect")]

\* the outcome of open_output_streams when the step failAt fails
\* ("none": every step succeeds); ok = FALSE is exit(EXIT_FAILURE)
open_output_streams(args, F, bad, failAt) ==
    LET st0 == [out |-> NoStreams, fds |-> F, log |-> <<>>, ok |-> TRUE]
        st1 == OpenText(args, st0, bad, failAt)
        st2 == OpenBinary(args, st1, failAt)
    IN  OpenUdp(args, st2, failAt)

\* the steps of open_output_streams that the arguments make it execute
OpenSteps(args) ==
    (IF args.text_log THEN {"text"} ELSE {})
       \cup (IF args.binary_log THEN {"binary"} ELSE {})
       \cup (IF args.use_udp THEN {"host", "family", "socket", "connect"}
             ELSE {})

\* a text line written for the record before
log_textPrevious(log, o, bad, rec) ==
    IF o.text_log
    THEN Append(log, WriteAttempt(bad, "text", rec - 1, <<TextPart("line")>>))
    ELSE log

\* log_text of ahrs400-read
log_text(log, o, bad, rec) ==
    IF o.text_log
    THEN Append(log, WriteAttempt(bad, "text", rec, <<TextPart("line")>>))
    ELSE log

\* an output that gives the message up when the binary log fails
output_mavlink_msgStopOnError(log, o, bad, rec, name) ==
    LET b == IF o.binary_log
             THEN Append(log, WriteAttempt(bad, "bin", rec,
                                           <<MavlinkPart(name)>>))
             ELSE log
    IN  IF o.udp_sock > 0 /\ ~(o.binary_log /\ "bin" \in bad)
        THEN Append(b, WriteAttempt(bad, "udp", rec, <<MavlinkPart(name)>>))
        ELSE b

\* an output that puts a timestamp before the message in the binary log
output_mavlink_msgStamped(log, o, bad, rec, name) ==
    LET b == IF o.binary_log
             THEN Append(log, WriteAttempt(bad, "bin", rec,
                                 <<TimestampPart, MavlinkPart(name)>>))
             ELSE log
    IN  IF o.udp_sock > 0
        THEN Append(b, WriteAttempt(bad, "udp", rec, <<MavlinkPart(name)>>))
        ELSE b

\* output_mavlink_msg: fwrite to the binary log, send to the socket
output_mavlink_msg(log, o, bad, rec, name) ==
    LET b == IF o.binary_log
             THEN Append(log, WriteAttempt(bad, "bin", rec,
                                           <<MavlinkPart(name)>>))
             ELSE log
    IN  IF o.udp_sock > 0
        THEN Append(b, WriteAttempt(bad, "udp", rec, <<MavlinkPart(name)>>))
        ELSE b

output_angle_raw(log, o, bad, rec) ==
    output_mavlink_msg(log, o, bad, rec, "ahrs400_angle_raw")

output_angle(log, o, bad, rec) ==
    output_mavlink_msg(log, o, bad, rec, "ahrs400_angle")

(***************************************************************************)
(* Initial states.                                                         *)
(***************************************************************************)
\* descriptors open when the process starts: stdin, stdout, stderr
StdFds == {0, 1, 2}

ArgConfigs ==
    { [text_log |-> FALSE, binary_log |-> FALSE, use_udp |-> FALSE],
      [text_log |-> TRUE, binary_log |-> TRUE, use_udp |-> TRUE] }

OutConfigs == {open_output_streams(a, StdFds, {}, "none").out : a \in ArgConfigs}

\* no command line left to parse
NoArgv == [rest |-> <<>>, arg_num |-> 0]

NoSample ==
    [tick |-> 0, time_usec |-> 0, rc |-> 0, nread |-> 0, notdone |-> {},
     io |-> 0, verbose |-> FALSE]

\* the reader is entered with the outputs open and the port open
InitCommon ==
    /\ arguments \in ArgConfigs
    /\ failing = {}
    /\ LET st == open_output_streams(arguments, StdFds, failing, "none")
       IN  /\ out = st.out
           /\ fds = st.fds \cup {LowestFree(st.fds)}
           /\ sinklog = st.log
    /\ hs = <<>>
    /\ adc = NoSample
    /\ argv = NoArgv
    /\ clock = StartClock
    /\ stream = <<>>
    /\ eof = FALSE
    /\ reads = 0
    /\ pc = "loop"
    /\ work = [j \in 0..size |-> Uninit]
    /\ work_ptr = 0
    /\ header_found = FALSE
    /\ fill = 0
    /\ recv_timestamp = NoStamp
    /\ payload = [j \in 0..(size - 1) |-> Uninit]
    /\ ret = 0
    /\ data = NoData
    /\ exit_status = NoExit
    /\ written = [text |-> 0, bin |-> 0, udp |-> 0]
    /\ cand = [hdr |-> 0, from |-> "none", at |-> StartClock, iter |-> 0]
    /\ rejected = {}
    /\ resync = [count |-> 0, kind |-> "none", offset |-> 0, at |-> 0]
    /\ call = [n |-> 0, start |-> 0]
    /\ frames = <<>>

Init ==
    /\ size \in 1..MaxSize
    /\ feed = [k \in 1..MaxStream |-> ByteVals]
    /\ InitCommon

(***************************************************************************)
(* ahrs400-read main loop: call of ahrs_get_angle_raw, which reads one     *)
(* frame of the angle payload length with ahrs_get_msg.                    *)
(***************************************************************************)
ahrs_get_angle_raw ==
    /\ pc = "loop"
    /\ pc' = "search"
    /\ work' = [j \in 0..size |-> Uninit]
    /\ work_ptr' = 0
    /\ header_found' = FALSE
    /\ fill' = 0
    /\ cand' = [hdr |-> 0, from |-> "none", at |-> clock, iter |-> 0]
    /\ rejected' = {}
    /\ resync' = [count |-> 0, kind |-> "none", offset |-> 0, at |-> 0]
    /\ call' = [n |-> call.n + 1, start |-> Len(stream)]
    /\ SourceIdle
    /\ SessionIdle
    /\ UNCHANGED <<size, feed, out, recv_timestamp, payload, ret, data,
                   exit_status, written, frames>>

(***************************************************************************)
(* ahrs_search_header: one fgetc per step.                                 *)
(***************************************************************************)
SearchHeaderSkip ==
    /\ pc = "search"
    /\ \E b \in NextBytes \ {AHRS_DATA_HEADER} : Deliver(b)
    /\ SessionIdle
    /\ UNCHANGED <<size, feed, out, pc, work, work_ptr, header_found, fill,
                   recv_timestamp, payload, ret, data, exit_status, written,
                   cand, rejected, resync, call, frames>>

\* the header is read; ahrs_get_msg stamps the frame and starts the fread
SearchHeaderFound ==
    /\ pc = "search"
    /\ Deliver(AHRS_DATA_HEADER)
    /\ recv_timestamp' = Stamp(recv_timestamp, clock')
    /\ fill' = work_ptr
    /\ pc' = "fread"
    /\ cand' = [hdr |-> Len(stream'), from |-> "scan", at |-> clock',
                iter |-> cand.iter + 1]
    /\ SessionIdle
    /\ UNCHANGED <<size, feed, out, work, work_ptr, header_found, payload,
                   ret, data, exit_status, written, rejected, resync, call,
                   frames>>

SearchHeaderEOF ==
    /\ pc = "search"
    /\ DeliverEOF
    /\ ret' = -1
    /\ pc' = "ret"
    /\ SessionIdle
    /\ UNCHANGED <<size, feed, out, work, work_ptr, header_found, fill,
                   recv_timestamp, payload, data, exit_status, written, cand,
                   rejected, resync, call, frames>>

(***************************************************************************)
(* fread(work + work_ptr, sizeof(work) - work_ptr, 1, file), byte by byte. *)
(***************************************************************************)
FreadByte ==
    /\ pc = "fread"
    /\ fill <= size
    /\ \E b \in NextBytes :
          /\ Deliver(b)
          /\ work' = [work EXCEPT ![fill] = b]
    /\ fill' = fill + 1
    /\ pc' = IF fill' = size + 1 THEN "check" ELSE "fread"
    /\ SessionIdle
    /\ UNCHANGED <<size, feed, out, work_ptr, header_found, recv_timestamp,
                   payload, ret, data, exit_status, written, cand, rejected,
                   resync, call, frames>>

\* an end-of-stream that hands the bytes read so far to the caller
FreadEOFStore ==
    /\ pc = "fread"
    /\ DeliverEOF
    /\ ret' = -1
    /\ pc' = "ret"
    /\ payload' = [j \in 0..(size - 1) |-> work[j]]
    /\ SessionIdle
    /\ UNCHANGED <<size, feed, out, work, work_ptr, header_found, fill,
                   recv_timestamp, data, exit_status, written, cand,
                   rejected, resync, call, frames>>

FreadEOF ==
    /\ pc = "fread"
    /\ DeliverEOF
    /\ ret' = -1
    /\ pc' = "ret"
    /\ SessionIdle
    /\ UNCHANGED <<size, feed, out, work, work_ptr, header_found, fill,
                   recv_timestamp, payload, data, exit_status, written, cand,
                   rejected, resync, call, frames>>

(***************************************************************************)
(* Checksum check and resynchronisation.                                   *)
(***************************************************************************)
ChecksumOk == checksum(work, size) = work[size]

CheckAccept ==
    /\ pc = "check"
    /\ ChecksumOk
    /\ payload' = [j \in 0..(size - 1) |-> work[j]]
    /\ ret' = 0
    /\ pc' = "ret"
    /\ frames' = Append(frames,
                        [payload |-> payload', ts |-> recv_timestamp,
                         hdr |-> cand.hdr, from |-> cand.from,
                         at |-> cand.at, rejected |-> rejected,
                         last |-> resync,
                         end |-> Len(stream), resyncs |-> resync.count,
                         call |-> call.n, start |-> call.start])
    /\ SourceIdle
    /\ SessionIdle
    /\ UNCHANGED <<size, feed, out, work, work_ptr, header_found, fill,
                   recv_timestamp, data, exit_status, written, cand, rejected,
                   resync, call>>

\* a resynchronisation that checks the shifted buffer again without a read
ResyncPartialNoRead ==
    /\ pc = "check"
    /\ ~ChecksumOk
    /\ HeaderOffsets(work, size) # {}
    /\ LET i == FirstHeader(work, size)
       IN  /\ work' = Memmove(work, size, i)
           /\ work_ptr' = WorkPtrAfter(WorkPtrReset(work_ptr), size, i)
           /\ resync' = [count |-> resync.count + 1, kind |-> "partial",
                         offset |-> i, at |-> Len(stream)]
           /\ cand' = [hdr |-> cand.hdr + 1 + i, from |-> "buffer",
                       at |-> clock, iter |-> cand.iter + 1]
    /\ header_found' = TRUE
    /\ recv_timestamp' = Stamp(recv_timestamp, clock)
    /\ fill' = size + 1
    /\ pc' = "check"
    /\ rejected' = rejected \cup {get_time_us(ClockGettimeRc, cand.at)}
    /\ SourceIdle
    /\ SessionIdle
    /\ UNCHANGED <<size, feed, out, payload, ret, data, exit_status, written,
                   call, frames>>

\* checksum mismatch, a header byte in the work buffer: keep what follows it
\* and go round the loop: stamp again, read only the missing bytes
ResyncPartial ==
    /\ pc = "check"
    /\ ~ChecksumOk
    /\ HeaderOffsets(work, size) # {}
    /\ LET i == FirstHeader(work, size)
       IN  /\ work' = Memmove(work, size, i)
           /\ work_ptr' = WorkPtrAfter(WorkPtrReset(work_ptr), size, i)
           /\ resync' = [count |-> resync.count + 1, kind |-> "partial",
                         offset |-> i, at |-> Len(stream)]
           /\ cand' = [hdr |-> cand.hdr + 1 + i, from |-> "buffer",
                       at |-> clock, iter |-> cand.iter + 1]
    /\ header_found' = TRUE
    /\ recv_timestamp' = Stamp(recv_timestamp, clock)
    /\ fill' = work_ptr'
    /\ pc' = "fread"
    /\ rejected' = rejected \cup {get_time_us(ClockGettimeRc, cand.at)}
    /\ SourceIdle
    /\ SessionIdle
    /\ UNCHANGED <<size, feed, out, payload, ret, data, exit_status, written,
                   call, frames>>

ResyncFullFail ==
    /\ pc = "check"
    /\ ~ChecksumOk
    /\ HeaderOffsets(work, size) = {}
    /\ ret' = -1
    /\ pc' = "ret"
    /\ SourceIdle
    /\ SessionIdle
    /\ UNCHANGED <<size, feed, out, work, work_ptr, header_found, fill,
                   recv_timestamp, payload, data, exit_status, written, cand,
                   rejected, resync, call, frames>>
\* checksum mismatch, no header byte in the work buffer: scan the stream again
ResyncFull ==
    /\ pc = "check"
    /\ ~ChecksumOk
    /\ HeaderOffsets(work, size) = {}
    /\ work_ptr' = WorkPtrReset(work_ptr)
    /\ header_found' = FALSE
    /\ pc' = "search"
    /\ resync' = [count |-> resync.count + 1, kind |-> "full", offset |-> 0,
                  at |-> Len(stream)]
    /\ rejected' = rejected \cup {get_time_us(ClockGettimeRc, cand.at)}
    /\ SourceIdle
    /\ SessionIdle
    /\ UNCHANGED <<size, feed, out, work, fill, recv_timestamp, payload, ret,
                   data, exit_status, written, cand, call, frames>>

(***************************************************************************)
(* ahrs400-read main loop after the call.                                  *)
(***************************************************************************)
Bump(w, k, n) == [w EXCEPT ![k] = @ + n]

\* frame read: convert, output_angle_raw, output_angle, log_text
LoopBody ==
    /\ pc = "ret"
    /\ ret = 0
    /\ data' = IF size = AHRS_ANGLE_PAYLOAD_LEN
               THEN ahrs_parse_angle(payload) ELSE NoData
    /\ sinklog' =
          LET rec == Len(frames)
              r == output_angle_raw(sinklog, out, failing, rec)
              a == output_angle(r, out, failing, rec)
          IN  log_text(a, out, failing, rec)
    /\ UNCHANGED <<arguments, fds, failing, hs, adc, argv>>
    /\ written' =
          LET b == IF out.binary_log THEN Bump(written, "bin", 2) ELSE written
              u == IF out.udp_sock > 0 THEN Bump(b, "udp", 2) ELSE b
          IN  IF out.text_log THEN Bump(u, "text", 1) ELSE u
    /\ pc' = "loop"
    /\ SourceIdle
    /\ UNCHANGED <<size, feed, out, work, work_ptr, header_found, fill,
                   recv_timestamp, payload, ret, exit_status, cand, rejected,
                   resync, call, frames>>

LoopIgnoreError ==
    /\ pc = "ret"
    /\ ret # 0
    /\ pc' = "loop"
    /\ SourceIdle
    /\ SessionIdle
    /\ UNCHANGED <<size, feed, out, work, work_ptr, header_found, fill,
                   recv_timestamp, payload, ret, data, exit_status, written,
                   cand, rejected, resync, call, frames>>
\* if (ahrs_get_angle_raw(...)) return EXIT_FAILURE;
LoopExit ==
    /\ pc = "ret"
    /\ ret # 0
    /\ exit_status' = EXIT_FAILURE
    /\ pc' = "exited"
    /\ SourceIdle
    /\ SessionIdle
    /\ UNCHANGED <<size, feed, out, work, work_ptr, header_found, fill,
                   recv_timestamp, payload, ret, data, written, cand,
                   rejected, resync, call, frames>>

Next ==
    \/ ahrs_get_angle_raw
    \/ SearchHeaderSkip
    \/ SearchHeaderFound
    \/ SearchHeaderEOF
    \/ FreadByte
    \/ FreadEOF
    \/ CheckAccept
    \/ ResyncPartial
    \/ ResyncFull
    \/ LoopBody
    \/ LoopExit

Spec == Init /\ [][Next]_vars

\* the thread of control always goes on: a read returns a byte, the end of
\* the stream or an error, and every other step is a computation; the
\* stream is one byte shorter than in Spec
LiveStream == MaxStream - 1

InitLive ==
    /\ size \in 1..MaxSize
    /\ feed = [k \in 1..LiveStream |-> ByteVals]
    /\ InitCommon

SpecLive == InitLive /\ [][Next]_vars /\ WF_vars(Next)

(***************************************************************************)
(* The end-to-end scenario: the reader is called with the angle payload    *)
(* length and the source delivers the all-zero frame, or a stream that     *)
(* differs from it at a few positions, followed by more bytes.             *)
(***************************************************************************)
ZeroFrame ==
    [k \in 1..(AHRS_ANGLE_PAYLOAD_LEN + 2) |->
        IF k = 1 THEN AHRS_DATA_HEADER ELSE 0]

ZeroFeed ==
    [k \in 1..(2 * (AHRS_ANGLE_PAYLOAD_LEN + 2) + 1) |->
        CASE k = 1 -> {AHRS_DATA_HEADER, 0}
          [] k = 2 -> {0, AHRS_DATA_HEADER}
          [] k = AHRS_ANGLE_PAYLOAD_LEN + 2 -> {0, 1}
          [] k = AHRS_ANGLE_PAYLOAD_LEN + 3 -> {0, AHRS_DATA_HEADER}
          [] OTHER -> {0}]

InitZero ==
    /\ size = AHRS_ANGLE_PAYLOAD_LEN
    /\ feed = ZeroFeed
    /\ InitCommon

SpecZero == InitZero /\ [][Next]_vars

(***************************************************************************)
(* The ahrs_get_msg of src/devices/ahrs400/ahrs400.c, an earlier revision  *)
(* of the reader: no timestamp, the test of header_found written without   *)
(* the negation, and the kept bytes moved with memcpy.  memcpy of          *)
(* overlapping regions is undefined: the copy runs from the first byte up, *)
(* which moves the bytes as memmove does, or from the last byte down.      *)
(***************************************************************************)
OldRest ==
    UNCHANGED <<size, feed, out, recv_timestamp, data, written, cand,
                rejected, frames, arguments, fds, failing, hs, adc, argv>>

\* memcpy(work, work + i + 1, sizeof(work) - i - 1) copying downwards
MemcpyDown(w, n, i) ==
    LET cnt == n - i
        R[j \in 0..n] ==
            IF j >= cnt THEN w[j]
            ELSE IF i + 1 + j < cnt THEN R[i + 1 + j]
            ELSE w[i + 1 + j]
    IN  [j \in 0..n |-> R[j]]

\* the regions of the memcpy overlap
MemcpyOverlaps(n, i) == n - i > i + 1

\* the outcomes of memcpy(work, work + i + 1, sizeof(work) - i - 1)
Memcpy(w, n, i) ==
    {Memmove(w, n, i)}
       \cup (IF MemcpyOverlaps(n, i) THEN {MemcpyDown(w, n, i)} ELSE {})

\* entry of the call: header_found is false, so the scan is skipped and
\* the fread of size + 1 bytes comes first
OldGetMsg ==
    /\ pc = "loop"
    /\ work' = [j \in 0..size |-> Uninit]
    /\ work_ptr' = 0
    /\ header_found' = FALSE
    /\ fill' = 0
    /\ resync' = [count |-> 0, kind |-> "none", offset |-> 0, at |-> 0]
    /\ call' = [n |-> call.n + 1, start |-> Len(stream)]
    /\ pc' = IF header_found' THEN "old_search" ELSE "old_fread"
    /\ SourceIdle
    /\ OldRest
    /\ UNCHANGED <<payload, ret, exit_status, sinklog>>

OldSearchHeaderSkip ==
    /\ pc = "old_search"
    /\ \E b \in NextBytes \ {AHRS_DATA_HEADER} : Deliver(b)
    /\ OldRest
    /\ UNCHANGED <<pc, work, work_ptr, header_found, fill, payload, ret,
                   exit_status, resync, call, sinklog>>

OldSearchHeaderFound ==
    /\ pc = "old_search"
    /\ Deliver(AHRS_DATA_HEADER)
    /\ fill' = work_ptr
    /\ pc' = "old_fread"
    /\ OldRest
    /\ UNCHANGED <<work, work_ptr, header_found, payload, ret, exit_status,
                   resync, call, sinklog>>

OldSearchHeaderEOF ==
    /\ pc = "old_search"
    /\ DeliverEOF
    /\ ret' = -1
    /\ pc' = "old_ret"
    /\ OldRest
    /\ UNCHANGED <<work, work_ptr, header_found, fill, payload, exit_status,
                   resync, call, sinklog>>

OldFreadByte ==
    /\ pc = "old_fread"
    /\ fill <= size
    /\ \E b \in NextBytes :
          /\ Deliver(b)
          /\ work' = [work EXCEPT ![fill] = b]
    /\ fill' = fill + 1
    /\ pc' = IF fill' = size + 1 THEN "old_check" ELSE "old_fread"
    /\ OldRest
    /\ UNCHANGED <<work_ptr, header_found, payload, ret, exit_status, resync,
                   call, sinklog>>

OldFreadEOF ==
    /\ pc = "old_fread"
    /\ DeliverEOF
    /\ ret' = -1
    /\ pc' = "old_ret"
    /\ OldRest
    /\ UNCHANGED <<work, work_ptr, header_found, fill, payload, exit_status,
                   resync, call, sinklog>>

\* calculated_chk == work[size]: memcpy to the payload, return 0
OldCheckAccept ==
    /\ pc = "old_check"
    /\ ChecksumOk
    /\ payload' = [j \in 0..(size - 1) |-> work[j]]
    /\ ret' = 0
    /\ pc' = "old_ret"
    /\ SourceIdle
    /\ OldRest
    /\ UNCHANGED <<work, work_ptr, header_found, fill, exit_status, resync,
                   call, sinklog>>

\* mismatch, a header byte in the work buffer: the bytes after it are kept,
\* header_found is true and the next turn of the loop scans the stream
OldResyncPartial ==
    /\ pc = "old_check"
    /\ ~ChecksumOk
    /\ HeaderOffsets(work, size) # {}
    /\ LET i == FirstHeader(work, size)
       IN  /\ work' \in Memcpy(work, size, i)
           /\ work_ptr' = WorkPtrAfter(WorkPtrReset(work_ptr), size, i)
           /\ resync' = [count |-> resync.count + 1, kind |-> "partial",
                         offset |-> i, at |-> Len(stream)]
    /\ header_found' = TRUE
    /\ fill' = work_ptr'
    /\ pc' = IF header_found' THEN "old_search" ELSE "old_fread"
    /\ SourceIdle
    /\ OldRest
    /\ UNCHANGED <<payload, ret, exit_status, call, sinklog>>

\* mismatch, no header byte in the work buffer: header_found is false and
\* the next turn of the loop reads size + 1 bytes without a scan
OldResyncFull ==
    /\ pc = "old_check"
    /\ ~ChecksumOk
    /\ HeaderOffsets(work, size) = {}
    /\ work_ptr' = WorkPtrReset(work_ptr)
    /\ header_found' = FALSE
    /\ fill' = work_ptr'
    /\ resync' = [count |-> resync.count + 1, kind |-> "full", offset |-> 0,
                  at |-> Len(stream)]
    /\ pc' = IF header_found' THEN "old_search" ELSE "old_fread"
    /\ SourceIdle
    /\ OldRest
    /\ UNCHANGED <<work, payload, ret, exit_status, call, sinklog>>

\* the read loop of the earlier main: a line on stdout for the frame
OldLoopBody ==
    /\ pc = "old_ret"
    /\ ret = 0
    /\ sinklog' = Append(sinklog, WriteAttempt(failing, "stdout", call.n,
                                               <<TextPart("line")>>))
    /\ pc' = "loop"
    /\ SourceIdle
    /\ OldRest
    /\ UNCHANGED <<work, work_ptr, header_found, fill, payload, ret,
                   exit_status, resync, call>>

\* if (ahrs_get_angle_raw(stream, &angle_raw)) return EXIT_FAILURE;
OldLoopExit ==
    /\ pc = "old_ret"
    /\ ret # 0
    /\ exit_status' = EXIT_FAILURE
    /\ pc' = "exited"
    /\ SourceIdle
    /\ OldRest
    /\ UNCHANGED <<work, work_ptr, header_found, fill, payload, ret, resync,
                   call, sinklog>>

NextOld ==
    \/ OldGetMsg
    \/ OldSearchHeaderSkip
    \/ OldSearchHeaderFound
    \/ OldSearchHeaderEOF
    \/ OldFreadByte
    \/ OldFreadEOF
    \/ OldCheckAccept
    \/ OldResyncPartial
    \/ OldResyncFull
    \/ OldLoopBody
    \/ OldLoopExit

SpecOld == Init /\ [][NextOld]_vars

(***************************************************************************)
(* A payload length beyond the range of work_ptr, which is a uint8_t: the  *)
(* smallest such length, on the stream of the scenario above stretched to  *)
(* that length.                                                            *)
(***************************************************************************)
WideSize == Uint8Mod

WideFeed ==
    [k \in 1..(2 * (WideSize + 2) + 1) |->
        CASE k = 1 -> {AHRS_DATA_HEADER, 0}
          [] k = 2 -> {0, AHRS_DATA_HEADER}
          [] k = WideSize + 2 -> {0, 1}
          [] k = WideSize + 3 -> {0, AHRS_DATA_HEADER}
          [] OTHER -> {0}]

InitWide ==
    /\ size = WideSize
    /\ feed = WideFeed
    /\ InitCommon

SpecWide == InitWide /\ [][Next]_vars

(***************************************************************************)
(* The conversion alone: ahrs_parse_angle applied to a payload in which    *)
(* one raw field takes its values over a background of equal bytes.  The   *)
(* first field runs over all 16-bit values, the others over the bytes at   *)
(* the ends and in the middle of the range.                                *)
(***************************************************************************)
SampleBytes == {0, 1, 127, 128, 255}

\* the payload with the bytes msb, lsb in field k and bg elsewhere
PayloadWith(k, msb, lsb, bg) ==
    [j \in 0..(AHRS_ANGLE_PAYLOAD_LEN - 1) |->
        IF j = 2 * k THEN msb ELSE IF j = 2 * k + 1 THEN lsb ELSE bg]

ConvPayloads ==
    {PayloadWith(0, msb, lsb, 0) : msb \in 0..255, lsb \in 0..255}
      \cup {PayloadWith(fb[1], fb[2], fb[3], fb[4]) :
               fb \in (0..13) \X SampleBytes \X SampleBytes \X {0, 255}}

InitConv ==
    /\ size = AHRS_ANGLE_PAYLOAD_LEN
    /\ feed = <<>>
    /\ arguments = [text_log |-> FALSE, binary_log |-> FALSE,
                    use_udp |-> FALSE]
    /\ fds = StdFds
    /\ failing = {}
    /\ out = NoStreams
    /\ sinklog = <<>>
    /\ hs = <<>>
    /\ adc = NoSample
    /\ argv = NoArgv
    /\ clock = StartClock
    /\ stream = <<>>
    /\ eof = FALSE
    /\ reads = 0
    /\ pc = "parse"
    /\ work = [j \in 0..size |-> Uninit]
    /\ work_ptr = 0
    /\ header_found = FALSE
    /\ fill = 0
    /\ recv_timestamp = NoStamp
    /\ payload \in ConvPayloads
    /\ ret = 0
    /\ data = NoData
    /\ exit_status = NoExit
    /\ written = [text |-> 0, bin |-> 0, udp |-> 0]
    /\ cand = [hdr |-> 0, from |-> "none", at |-> StartClock, iter |-> 0]
    /\ rejected = {}
    /\ resync = [count |-> 0, kind |-> "none", offset |-> 0, at |-> 0]
    /\ call = [n |-> 0, start |-> 0]
    /\ frames = <<>>

\* ahrs_parse_angle(payload, &data)
ParseAngle ==
    /\ pc = "parse"
    /\ data' = ahrs_parse_angle(payload)
    /\ pc' = "parsed"
    /\ SourceIdle
    /\ SessionIdle
    /\ UNCHANGED <<size, feed, out, work, work_ptr, header_found, fill,
                   recv_timestamp, payload, ret, exit_status, written, cand,
                   rejected, resync, call, frames>>

NextConv == ParseAngle

SpecConv == InitConv /\ [][NextConv]_vars

(***************************************************************************)
(* The start-up of ahrs400-read: open_output_streams, ahrs_open and the    *)
(* handshake.  Every write to and read of the device and the purge are     *)
(* recorded in hs, each with the number of reads made before it.  fputc    *)
(* and the fgetc that follows it act on the same stdio stream, which       *)
(* keeps the order of the bytes written.                                   *)
(***************************************************************************)
Ev(ev, step, byte, rc) ==
    [ev |-> ev, step |-> step, byte |-> byte, rc |-> rc, reads |-> reads]

\* return EXIT_FAILURE from main, or exit(EXIT_FAILURE)
Exit == exit_status' = EXIT_FAILURE /\ pc' = "exited"

FramerIdle ==
    UNCHANGED <<size, feed, work, work_ptr, header_found, fill,
                recv_timestamp, payload, ret, data, written, cand, rejected,
                resync, call, frames, arguments, failing, adc, argv>>

\* open_output_streams(&arguments, &output_streams), every step succeeding
OpenOutputStreams ==
    /\ pc = "main"
    /\ LET st == open_output_streams(arguments, fds, failing, "none")
       IN  /\ out' = st.out
           /\ fds' = st.fds
           /\ sinklog' = st.log
    /\ pc' = "ahrs_open"
    /\ SourceIdle
    /\ FramerIdle
    /\ UNCHANGED <<exit_status, hs>>

\* a start-up that goes on to the port although an output failed to open
OpenOutputStreamsGoOn ==
    /\ pc = "main"
    /\ \E failAt \in OpenSteps(arguments) :
          LET st == open_output_streams(arguments, fds, failing, failAt)
          IN  /\ out' = st.out
              /\ fds' = st.fds
              /\ sinklog' = st.log
    /\ pc' = "ahrs_open"
    /\ SourceIdle
    /\ FramerIdle
    /\ UNCHANGED <<exit_status, hs>>

\* open_output_streams with a step that fails: exit(EXIT_FAILURE)
OpenOutputStreamsFail ==
    /\ pc = "main"
    /\ \E failAt \in OpenSteps(arguments) :
          LET st == open_output_streams(arguments, fds, failing, failAt)
          IN  /\ out' = st.out
              /\ fds' = st.fds
              /\ sinklog' = st.log
    /\ Exit
    /\ SourceIdle
    /\ FramerIdle
    /\ UNCHANGED hs

\* ahrs_open(arguments.port)
AhrsOpen ==
    /\ pc = "ahrs_open"
    /\ fds' = fds \cup {LowestFree(fds)}
    /\ pc' = "set_polled"
    /\ SourceIdle
    /\ FramerIdle
    /\ UNCHANGED <<out, exit_status, hs, sinklog>>

\* ahrs_open returns NULL
AhrsOpenFail ==
    /\ pc = "ahrs_open"
    /\ Exit
    /\ SourceIdle
    /\ FramerIdle
    /\ UNCHANGED <<out, fds, hs, sinklog>>

\* fputc of a command byte: wrote = FALSE is fputc returning EOF
PutCommand(step, byte, wrote) ==
    hs' = Append(hs, Ev("write", step, byte, IF wrote THEN 0 ELSE -1))

\* a start-up that goes on after a failed write of the polled-mode command
SetPolledIgnore ==
    /\ pc = "set_polled"
    /\ \E wrote \in BOOLEAN : PutCommand("polled", POLLED_MODE, wrote)
    /\ pc' = "purge"
    /\ SourceIdle
    /\ FramerIdle
    /\ UNCHANGED <<out, fds, exit_status, sinklog>>

\* if (ahrs_set_polled(ahrs_stream)) return EXIT_FAILURE;
SetPolled ==
    /\ pc = "set_polled"
    /\ \E wrote \in BOOLEAN :
          /\ PutCommand("polled", POLLED_MODE, wrote)
          /\ IF wrote THEN pc' = "purge" /\ exit_status' = exit_status
                      ELSE Exit
    /\ SourceIdle
    /\ FramerIdle
    /\ UNCHANGED <<out, fds, sinklog>>

\* a start-up that sleeps but never purges
SleepOnly ==
    /\ pc = "purge"
    /\ clock' = AddNs(clock, NsPerSec)
    /\ pc' = "ping"
    /\ UNCHANGED <<stream, reads, eof>>
    /\ FramerIdle
    /\ UNCHANGED <<out, fds, exit_status, sinklog, hs>>

\* fflush(ahrs_stream); sleep(1); ahrs_purge(ahrs_stream);
Purge ==
    /\ pc = "purge"
    /\ \E rc \in {0, -1} : hs' = Append(hs, Ev("purge", "purge", 0, rc))
    /\ clock' = AddNs(clock, NsPerSec)
    /\ pc' = "ping"
    /\ UNCHANGED <<stream, reads, eof>>
    /\ FramerIdle
    /\ UNCHANGED <<out, fds, exit_status, sinklog>>

\* ahrs_ping: fputc(PING, file)
PingWrite ==
    /\ pc = "ping"
    /\ \E wrote \in BOOLEAN :
          /\ PutCommand("ping", PING, wrote)
          /\ IF wrote THEN pc' = "ping_read" /\ exit_status' = exit_status
                      ELSE Exit
    /\ SourceIdle
    /\ FramerIdle
    /\ UNCHANGED <<out, fds, sinklog>>

\* a response that is read but accepted whatever it is
GetResponseAny(step, expected, next) ==
    \E b \in NextBytes :
       /\ Deliver(b)
       /\ hs' = Append(hs, Ev("read", step, b, 0))
       /\ pc' = next /\ exit_status' = exit_status

\* the response read by fgetc, compared with the expected one
GetResponse(step, expected, next) ==
    \E b \in NextBytes :
       /\ Deliver(b)
       /\ hs' = Append(hs, Ev("read", step, b,
                              IF b = expected THEN 0 ELSE -1))
       /\ IF b = expected THEN pc' = next /\ exit_status' = exit_status
                          ELSE Exit

\* fgetc returns EOF
GetResponseEOF(step) ==
    /\ DeliverEOF
    /\ hs' = Append(hs, Ev("read", step, -1, -1))
    /\ Exit

\* ahrs_ping: fgetc(file), response != PING_RESPONSE
PingRead ==
    /\ pc = "ping_read"
    /\ GetResponse("ping", PING_RESPONSE, "set_mode")
    /\ FramerIdle
    /\ UNCHANGED <<out, fds, sinklog>>

PingEOF ==
    /\ pc = "ping_read"
    /\ GetResponseEOF("ping")
    /\ FramerIdle
    /\ UNCHANGED <<out, fds, sinklog>>

\* the switch of ahrs_set_mode
ModeCodes(mode) ==
    CASE mode = "AHRS_VOLTAGE_MODE" ->
            [known |-> TRUE, command |-> VOLTAGE_MODE,
             response |-> VOLTAGE_MODE_RESPONSE]
      [] mode = "AHRS_SCALED_MODE" ->
            [known |-> TRUE, command |-> SCALED_MODE,
             response |-> SCALED_MODE_RESPONSE]
      [] mode = "AHRS_ANGLE_MODE" ->
            [known |-> TRUE, command |-> ANGLE_MODE,
             response |-> ANGLE_MODE_RESPONSE]
      [] OTHER -> [known |-> FALSE, command |-> -1, response |-> -1]

MainModeScaled == "AHRS_SCALED_MODE"

\* the mode main asks for
MainMode == "AHRS_ANGLE_MODE"

\* ahrs_set_mode: the switch and fputc(mode_command, file)
SetModeWrite ==
    /\ pc = "set_mode"
    /\ IF ModeCodes(MainMode).known
       THEN \E wrote \in BOOLEAN :
               /\ PutCommand("mode", ModeCodes(MainMode).command, wrote)
               /\ IF wrote
                  THEN pc' = "mode_read" /\ exit_status' = exit_status
                  ELSE Exit
       ELSE hs' = hs /\ Exit
    /\ SourceIdle
    /\ FramerIdle
    /\ UNCHANGED <<out, fds, sinklog>>

\* ahrs_set_mode: fgetc(file), response != mode_response
SetModeRead ==
    /\ pc = "mode_read"
    /\ GetResponse("mode", ModeCodes(MainMode).response, "set_continuous")
    /\ FramerIdle
    /\ UNCHANGED <<out, fds, sinklog>>

SetModeEOF ==
    /\ pc = "mode_read"
    /\ GetResponseEOF("mode")
    /\ FramerIdle
    /\ UNCHANGED <<out, fds, sinklog>>

\* a continuous-mode transition that waits for an answer
SetContinuousRead ==
    /\ pc = "set_continuous"
    /\ \E wrote \in BOOLEAN, b \in NextBytes :
          /\ Deliver(b)
          /\ hs' = Append(Append(hs, Ev("write", "continuous",
                                        CONTINUOUS_MODE,
                                        IF wrote THEN 0 ELSE -1)),
                          Ev("read", "continuous", b, 0))
          /\ IF wrote THEN pc' = "loop" /\ exit_status' = exit_status
                      ELSE Exit
    /\ FramerIdle
    /\ UNCHANGED <<out, fds, sinklog>>

\* || ahrs_set_continuous(ahrs_stream)) return EXIT_FAILURE;
SetContinuous ==
    /\ pc = "set_continuous"
    /\ \E wrote \in BOOLEAN :
          /\ PutCommand("continuous", CONTINUOUS_MODE, wrote)
          /\ IF wrote THEN pc' = "loop" /\ exit_status' = exit_status
                      ELSE Exit
    /\ SourceIdle
    /\ FramerIdle
    /\ UNCHANGED <<out, fds, sinklog>>

\* the device answers the ping and the mode command, rightly or wrongly,
\* then streams the bytes of the end-to-end scenario
SessionFeed ==
    <<{PING_RESPONSE, 0}, {ANGLE_MODE_RESPONSE, PING_RESPONSE}>> \o ZeroFeed

\* each output asked for or not
ArgSpace == [text_log : BOOLEAN, binary_log : BOOLEAN, use_udp : BOOLEAN]

\* the sinks the arguments ask for
Configured(args) ==
    (IF args.text_log THEN {"text"} ELSE {})
       \cup (IF args.binary_log THEN {"bin"} ELSE {})
       \cup (IF args.use_udp THEN {"udp"} ELSE {})

\* the process is started with or without an open standard input
StartFds == {StdFds, StdFds \ {0}}

\* the state of a process that has not opened anything yet
ProcessState ==
    /\ size = AHRS_ANGLE_PAYLOAD_LEN
    /\ feed = SessionFeed
    /\ fds \in StartFds
    /\ out = NoStreams
    /\ sinklog = <<>>
    /\ hs = <<>>
    /\ clock = StartClock
    /\ stream = <<>>
    /\ eof = FALSE
    /\ reads = 0
    /\ work = [j \in 0..size |-> Uninit]
    /\ work_ptr = 0
    /\ header_found = FALSE
    /\ fill = 0
    /\ recv_timestamp = NoStamp
    /\ payload = [j \in 0..(size - 1) |-> Uninit]
    /\ ret = 0
    /\ data = NoData
    /\ exit_status = NoExit
    /\ written = [text |-> 0, bin |-> 0, udp |-> 0]
    /\ cand = [hdr |-> 0, from |-> "none", at |-> StartClock, iter |-> 0]
    /\ rejected = {}
    /\ resync = [count |-> 0, kind |-> "none", offset |-> 0, at |-> 0]
    /\ call = [n |-> 0, start |-> 0]
    /\ frames = <<>>

\* a reader process at the entry of main, the arguments parsed
ProcessStart ==
    /\ arguments \in ArgSpace
    /\ argv = NoArgv
    /\ ProcessState

InitSession ==
    /\ ProcessStart
    /\ failing \in SUBSET Configured(arguments)
    /\ adc = NoSample
    /\ pc = "main"

NextSession ==
    \/ OpenOutputStreams
    \/ OpenOutputStreamsFail
    \/ AhrsOpen
    \/ AhrsOpenFail
    \/ SetPolled
    \/ Purge
    \/ PingWrite
    \/ PingRead
    \/ PingEOF
    \/ SetModeWrite
    \/ SetModeRead
    \/ SetModeEOF
    \/ SetContinuous
    \/ Next

SpecSession == InitSession /\ [][NextSession]_vars

(***************************************************************************)
(* vcmdas1-read: the outputs are opened as in ahrs400-read (the same       *)
(* open_output_streams and output_mavlink_msg), the board and the 20 ms    *)
(* timer are set up, and every tick all channels are read and the sample   *)
(* is written to the sinks.  sigwait is called with SIGALRM not blocked    *)
(* and with a null pointer for the signal number, which is undefined: the  *)
(* call returns at the tick, or the process is killed by a signal.         *)
(***************************************************************************)
\* it_interval of the sampling timer, in ns
TimerPeriodNs == 20000000
\* status reported for a process killed by SIGALRM
KilledBySignal == 128 + 14

\* bitwise and of two naturals
RECURSIVE BitAnd(_, _)
BitAnd(a, b) ==
    IF a = 0 \/ b = 0 THEN 0
    ELSE (a % 2) * (b % 2) + 2 * BitAnd(a \div 2, b \div 2)

\* the C operator !
LogicalNot(x) == IF x = 0 THEN 1 ELSE 0

\* read_adc: the test of the status register, as the compiler parses it
read_adc(status) ==
    IF BitAnd(LogicalNot(status), DONE_BIT) # 0 THEN -1 ELSE 0

\* read_all from channel i on: the result and the channels read
RECURSIVE ReadAllFrom(_, _)
ReadAllFrom(st, i) ==
    IF i = NumChannels THEN [rc |-> 0, nread |-> NumChannels]
    ELSE IF read_adc(st[i]) # 0 THEN [rc |-> -1, nread |-> i]
    ELSE ReadAllFrom(st, i + 1)

read_all(st) == ReadAllFrom(st, 0)

\* the status register as each channel's read sees it within one tick
StatusFeeds ==
    { [i \in 0..(NumChannels - 1) |-> DONE_BIT],
      [i \in 0..(NumChannels - 1) |-> 0],
      [i \in 0..(NumChannels - 1) |->
          IF i = NumChannels - 1 THEN BUSY_BIT ELSE DONE_BIT] }

\* log_text of vcmdas1-read: time, the channels, the end of line, given up
\* at the first fprintf that fails
adc_log_text(log, present, bad, sink, rec) ==
    IF ~present THEN log
    ELSE IF sink \in bad
         THEN Append(log, WriteAttempt(bad, sink, rec, <<TextPart("time")>>))
    ELSE Append(log, WriteAttempt(bad, sink, rec,
                    <<TextPart("time")>>
                      \o [i \in 1..NumChannels |-> TextPart("data")]
                      \o <<TextPart("newline")>>))

output_adc_raw(log, o, bad, rec) ==
    output_mavlink_msg(log, o, bad, rec, "adc_raw")

\* write attempts made for records (not the header) on each sink
CountWrites(log) ==
    [s \in {"text", "bin", "udp"} |->
        Cardinality({k \in 1..Len(log) : log[k].sink = s /\ log[k].rec > 0})]

AdcIdle ==
    UNCHANGED <<size, feed, stream, eof, reads, work, work_ptr, header_found,
                fill, recv_timestamp, payload, ret, data, cand, rejected,
                resync, call, frames, arguments, failing, hs, argv>>

\* open_output_streams(&arguments, &output_streams), every step succeeding
AdcOpenOutputStreams ==
    /\ pc = "adc_main"
    /\ LET st == open_output_streams(arguments, fds, failing, "none")
       IN  /\ out' = st.out
           /\ fds' = st.fds
           /\ sinklog' = st.log
    /\ pc' = "adc_setup"
    /\ AdcIdle
    /\ UNCHANGED <<clock, exit_status, written, adc>>

\* open_output_streams with a step that fails: exit(EXIT_FAILURE)
AdcOpenOutputStreamsFail ==
    /\ pc = "adc_main"
    /\ \E failAt \in OpenSteps(arguments) :
          LET st == open_output_streams(arguments, fds, failing, failAt)
          IN  /\ out' = st.out
              /\ fds' = st.fds
              /\ sinklog' = st.log
    /\ Exit
    /\ AdcIdle
    /\ UNCHANGED <<clock, written, adc>>

\* ioperm, outb(0, base + CONTROL), timer_create, timer_settime
AdcSetup ==
    /\ pc = "adc_setup"
    /\ adc' = [adc EXCEPT !.io = @ + 1]
    /\ pc' = "adc_wait"
    /\ AdcIdle
    /\ UNCHANGED <<out, fds, sinklog, clock, exit_status, written>>

\* timer_create or timer_settime fails: exit(EXIT_FAILURE)
AdcSetupFail ==
    /\ pc = "adc_setup"
    /\ adc' = [adc EXCEPT !.io = @ + 1]
    /\ Exit
    /\ AdcIdle
    /\ UNCHANGED <<out, fds, sinklog, clock, written>>

\* one turn of the read loop: sigwait returns at the tick, read_all,
\* output_adc_raw, log_text to the text log and, if verbose, to stdout
AdcTick ==
    /\ pc = "adc_wait"
    /\ adc.tick < MaxTicks
    /\ clock' = AddNs(clock, TimerPeriodNs)
    /\ \E st \in StatusFeeds :
          LET r == read_all(st)
          IN  adc' = [adc EXCEPT
                        !.tick = @ + 1,
                        !.time_usec = get_time_us(ClockGettimeRc, clock'),
                        !.rc = r.rc,
                        !.nread = r.nread,
                        !.notdone = {i \in 0..(NumChannels - 1) :
                                       BitAnd(st[i], DONE_BIT) = 0},
                        !.io = @ + 3 * r.nread
                                 + (IF r.rc # 0 THEN 2 ELSE 0)]
    /\ sinklog' =
          LET rec == adc.tick + 1
              m == output_adc_raw(sinklog, out, failing, rec)
              t == adc_log_text(m, out.text_log, failing, "text", rec)
          IN  adc_log_text(t, adc.verbose, failing, "stdout", rec)
    /\ written' = CountWrites(sinklog')
    /\ pc' = "adc_wait"
    /\ AdcIdle
    /\ UNCHANGED <<out, fds, exit_status>>

\* sigwait of a signal that is not blocked: the process is killed
AdcSignal ==
    /\ pc = "adc_wait"
    /\ exit_status' = KilledBySignal
    /\ pc' = "exited"
    /\ AdcIdle
    /\ UNCHANGED <<out, fds, sinklog, clock, written, adc>>

InitAdc ==
    /\ ProcessStart
    /\ \E v \in BOOLEAN :
          /\ adc = [NoSample EXCEPT !.verbose = v]
          /\ failing \in SUBSET (Configured(arguments)
                                   \cup (IF v THEN {"stdout"} ELSE {}))
    /\ pc = "adc_main"

NextAdc ==
    \/ AdcOpenOutputStreams
    \/ AdcOpenOutputStreamsFail
    \/ AdcSetup
    \/ AdcSetupFail
    \/ AdcTick
    \/ AdcSignal

\* either device reader
SpecReaders ==
    (InitSession \/ InitAdc) /\ [][NextSession \/ NextAdc]_vars

(***************************************************************************)
(* mavlink-logger and mavlog: open the log and the serial port, then read  *)
(* the port one byte at a time and hand each byte to the MAVLink parser,   *)
(* which is external: whether a byte completes a message, and the id of    *)
(* the message, are choices of the environment.  A write attempt made for  *)
(* a message is recorded with the number of the read that completed it.    *)
(* hs records the reads and the errors logged.  open_log of mavlog has no  *)
(* return statement: the FILE pointer main receives is indeterminate, it   *)
(* is the stream that was opened or a pointer fwrite faults on.            *)
(***************************************************************************)
KilledBySegv == 128 + 11

LoggerIdle ==
    UNCHANGED <<size, feed, clock, eof, work, work_ptr, header_found, fill,
                recv_timestamp, payload, ret, data, written, cand, rejected,
                resync, call, frames, arguments, failing, adc, argv>>

\* mavlink-logger: open_text_log(arguments.text_log), open_serial_port
MavlinkLoggerOpen ==
    /\ pc = "logger_main"
    /\ out' = [out EXCEPT !.text_log = arguments.text_log]
    /\ fds' = LET F == IF arguments.text_log
                       THEN fds \cup {LowestFree(fds)} ELSE fds
              IN  F \cup {LowestFree(F)}
    /\ pc' = "logger_loop"
    /\ LoggerIdle
    /\ UNCHANGED <<stream, reads, exit_status, hs, sinklog>>

\* fopen of the text log or open of the port fails: exit(EXIT_FAILURE)
MavlinkLoggerOpenFail ==
    /\ pc = "logger_main"
    /\ hs' = Append(hs, Ev("syslog", "open", -1, -1))
    /\ Exit
    /\ LoggerIdle
    /\ UNCHANGED <<stream, reads, out, fds, sinklog>>

\* log_message(&msg, text_log): a line for the three data messages
log_message(log, o, bad, rec, known) ==
    IF ~o.text_log \/ ~known THEN log
    ELSE log \o <<WriteAttempt(bad, "text", rec, <<TextPart("payload")>>),
                  WriteAttempt(bad, "stdout", rec, <<TextPart("msgid")>>),
                  WriteAttempt(bad, "text", rec, <<TextPart("ids")>>)>>

\* read returns 1: mavlink_parse_char, log_message when a message is done
MavlinkLoggerRead ==
    /\ pc = "logger_loop"
    /\ reads < MaxReads
    /\ \E b \in ByteVals, done \in BOOLEAN, known \in BOOLEAN :
          /\ stream' = Append(stream, b)
          /\ hs' = Append(hs, Ev("read", "logger", b, 1))
          /\ sinklog' = IF done
                        THEN log_message(sinklog, out, failing, reads + 1,
                                         known)
                        ELSE sinklog
    /\ reads' = reads + 1
    /\ pc' = "logger_loop"
    /\ LoggerIdle
    /\ UNCHANGED <<out, fds, exit_status>>

\* read returns 0: continue
MavlinkLoggerReadEOF ==
    /\ pc = "logger_loop"
    /\ reads < MaxReads
    /\ hs' = Append(hs, Ev("read", "logger", -1, 0))
    /\ reads' = reads + 1
    /\ pc' = "logger_loop"
    /\ LoggerIdle
    /\ UNCHANGED <<stream, out, fds, exit_status, sinklog>>

\* read returns -1: syslog, exit(EXIT_FAILURE)
MavlinkLoggerReadError ==
    /\ pc = "logger_loop"
    /\ reads < MaxReads
    /\ hs' = hs \o <<Ev("read", "logger", -1, -1),
                     Ev("syslog", "read", -1, -1)>>
    /\ reads' = reads + 1
    /\ Exit
    /\ LoggerIdle
    /\ UNCHANGED <<stream, out, fds, sinklog>>

\* mavlog: open_serial_port, open_log; the value open_log returns is
\* indeterminate
MavlogOpen ==
    /\ pc = "mavlog_main"
    /\ \E usable \in BOOLEAN : out' = [out EXCEPT !.binary_log = usable]
    /\ fds' = LET F == fds \cup {LowestFree(fds)}
              IN  F \cup {LowestFree(F)}
    /\ pc' = "mavlog_loop"
    /\ LoggerIdle
    /\ UNCHANGED <<stream, reads, exit_status, hs, sinklog>>

\* open of the port or fopen of the log fails: exit(EXIT_FAILURE)
MavlogOpenFail ==
    /\ pc = "mavlog_main"
    /\ hs' = Append(hs, Ev("syslog", "open", -1, -1))
    /\ Exit
    /\ LoggerIdle
    /\ UNCHANGED <<stream, reads, out, fds, sinklog>>

\* logwrite(log, &msg): the timestamp, then the message, each with an
\* fwrite of its own that fails (badTs, badMsg) or not
logwrite(log, badTs, badMsg, rec) ==
    log \o <<WriteAttempt(badTs, "bin", rec, <<TimestampPart>>),
             WriteAttempt(badMsg, "bin", rec, <<MavlinkPart("message")>>)>>

\* read returns 1: mavlink_parse_char, logwrite when a message is done;
\* each write to a log that is failing may fail
MavlogRead ==
    /\ pc = "mavlog_loop"
    /\ reads < MaxReads
    /\ \E b \in ByteVals, done \in BOOLEAN,
          badTs \in SUBSET failing, badMsg \in SUBSET failing :
          /\ stream' = Append(stream, b)
          /\ hs' = Append(hs, Ev("read", "mavlog", b, 1))
          /\ IF done /\ ~out.binary_log
             THEN /\ exit_status' = KilledBySegv
                  /\ pc' = "exited"
                  /\ sinklog' = sinklog
             ELSE /\ exit_status' = exit_status
                  /\ pc' = "mavlog_loop"
                  /\ sinklog' = IF done
                                THEN logwrite(sinklog, badTs, badMsg,
                                              reads + 1)
                                ELSE sinklog
    /\ reads' = reads + 1
    /\ LoggerIdle
    /\ UNCHANGED <<out, fds>>

\* read returns 0: neither branch of the loop body is taken
MavlogReadEOF ==
    /\ pc = "mavlog_loop"
    /\ reads < MaxReads
    /\ hs' = Append(hs, Ev("read", "mavlog", -1, 0))
    /\ reads' = reads + 1
    /\ pc' = "mavlog_loop"
    /\ LoggerIdle
    /\ UNCHANGED <<stream, out, fds, exit_status, sinklog>>

\* read returns -1: syslog, and the loop goes on
MavlogReadError ==
    /\ pc = "mavlog_loop"
    /\ reads < MaxReads
    /\ hs' = hs \o <<Ev("read", "mavlog", -1, -1),
                     Ev("syslog", "read", -1, -1)>>
    /\ reads' = reads + 1
    /\ pc' = "mavlog_loop"
    /\ LoggerIdle
    /\ UNCHANGED <<stream, out, fds, exit_status, sinklog>>

\* mavlink-logger [-t FILE] PORT, or mavlog DEVICE LOGFILE
InitLoggers ==
    /\ ProcessStart
    /\ adc = NoSample
    /\ \/ /\ pc = "logger_main"
          /\ arguments.use_udp = FALSE
          /\ arguments.binary_log = FALSE
          /\ failing \in SUBSET (Configured(arguments) \cup {"stdout"})
       \/ /\ pc = "mavlog_main"
          /\ arguments = [text_log |-> FALSE, binary_log |-> TRUE,
                          use_udp |-> FALSE]
          /\ failing \in SUBSET {"bin"}

NextLoggers ==
    \/ MavlinkLoggerOpen
    \/ MavlinkLoggerOpenFail
    \/ MavlinkLoggerRead
    \/ MavlinkLoggerReadEOF
    \/ MavlinkLoggerReadError
    \/ MavlogOpen
    \/ MavlogOpenFail
    \/ MavlogRead
    \/ MavlogReadEOF
    \/ MavlogReadError

SpecLoggers == InitLoggers /\ [][NextLoggers]_vars

(***************************************************************************)
(* Command lines of ahrs400-read and vcmdas1-read.  argp_parse calls       *)
(* parse_opt once for each option, in the order given, then once for each  *)
(* positional argument, then with ARGP_KEY_END; argp_error prints the      *)
(* usage and exits with EX_USAGE.  A C string is modelled by what strtoul  *)
(* makes of it: the number its leading digits spell and the text left      *)
(* after them.  A path or a host that is set is TRUE in struct arguments,  *)
(* except udp_host, which keeps the string.                                *)
(***************************************************************************)
EX_USAGE == 64
Uint16Mod == 65536
ARGP_KEY_ARG == "ARGP_KEY_ARG"
ARGP_KEY_END == "ARGP_KEY_END"

Str(d, t) == [digits |-> d, tail |-> t]

\* a null char pointer
NullArg == Str(0, "(null)")

\* strtoul(arg, &endptr, 0)
strtoul(arg) == [value |-> arg.digits, endptr |-> arg.tail]

\* struct arguments arguments = {.udp_host = "224.0.0.1", .udp_port=38400}
AhrsDefaults ==
    [port |-> NullArg, text_log |-> FALSE, binary_log |-> FALSE,
     use_udp |-> FALSE, udp_host |-> Str(224, ".0.0.1"), udp_port |-> 38400]

\* arguments_t arguments = {.base_address=0x3E0, .udp_host="224.0.0.1",
\* .udp_port=38400}
AdcDefaults ==
    [base_address |-> 992, text_log |-> FALSE, binary_log |-> FALSE,
     verbose |-> FALSE, use_udp |-> FALSE, udp_host |-> Str(224, ".0.0.1"),
     udp_port |-> 38400]

\* parse_opt of ahrs400-read; err is a call of argp_error
parse_opt(key, arg, args, arg_num) ==
    CASE key = "t" -> [args |-> [args EXCEPT !.text_log = TRUE],
                       err |-> FALSE]
      [] key = "b" -> [args |-> [args EXCEPT !.binary_log = TRUE],
                       err |-> FALSE]
      [] key = "h" -> [args |-> [args EXCEPT !.udp_host = arg],
                       err |-> FALSE]
      [] key = "p" ->
            LET port == strtoul(arg)
            IN  [args |-> [args EXCEPT !.use_udp = TRUE,
                                       !.udp_port = port.value % Uint16Mod],
                 err |-> port.endptr # "" \/ port.value > 65535]
      [] key = "u" -> [args |-> [args EXCEPT !.use_udp = TRUE],
                       err |-> FALSE]
      [] key = ARGP_KEY_ARG -> [args |-> [args EXCEPT !.port = arg],
                                err |-> arg_num >= 1]
      [] key = ARGP_KEY_END -> [args |-> args, err |-> arg_num < 1]
      [] OTHER -> [args |-> args, err |-> FALSE]

\* parse_opt of vcmdas1-read; err is a call of argp_error
adc_parse_opt(key, arg, args, arg_num) ==
    CASE key = "t" -> [args |-> [args EXCEPT !.text_log = TRUE],
                       err |-> FALSE]
      [] key = "v" -> [args |-> [args EXCEPT !.verbose = TRUE],
                       err |-> FALSE]
      [] key = "b" -> [args |-> [args EXCEPT !.binary_log = TRUE],
                       err |-> FALSE]
      [] key = "u" ->
            [args |-> [args EXCEPT !.use_udp = TRUE,
                                   !.udp_host = IF arg # NullArg THEN arg
                                                ELSE @],
             err |-> FALSE]
      [] key = "p" ->
            LET base_address == strtoul(arg)
            IN  [args |-> [args EXCEPT !.use_udp = TRUE,
                                       !.base_address = base_address.value],
                 err |-> base_address.endptr # ""]
      [] key = ARGP_KEY_ARG ->
            LET udp_port == strtoul(arg)
            IN  [args |-> [args EXCEPT !.udp_port =
                                           udp_port.value % Uint16Mod],
                 err |-> arg_num >= 1 \/ udp_port.endptr # ""
                            \/ udp_port.value > 65535]
      [] OTHER -> [args |-> args, err |-> FALSE]

\* the word argp_parse hands to parse_opt next: the first option, or the
\* first positional argument when no option is left
NextWord(rest) ==
    LET opts == {k \in 1..Len(rest) : rest[k].key # ARGP_KEY_ARG}
    IN  IF opts # {} THEN MinOf(opts) ELSE 1

Remove(seq, k) == [j \in 1..(Len(seq) - 1) |->
                      IF j < k THEN seq[j] ELSE seq[j + 1]]

ArgvAfter(k) ==
    [rest |-> Remove(argv.rest, k),
     arg_num |-> argv.arg_num
                   + (IF argv.rest[k].key = ARGP_KEY_ARG THEN 1 ELSE 0)]

\* argp_error
Usage == exit_status' = EX_USAGE /\ pc' = "exited"

ArgpIdle ==
    UNCHANGED <<size, feed, out, clock, stream, eof, reads, work, work_ptr,
                header_found, fill, recv_timestamp, payload, ret, data,
                written, cand, rejected, resync, call, frames, fds, failing,
                hs, sinklog>>

\* ahrs400-read: argp_parse hands one word of the command line to parse_opt
ArgpParse ==
    /\ pc = "argp_parse"
    /\ argv.rest # <<>>
    /\ LET k == NextWord(argv.rest)
           r == parse_opt(argv.rest[k].key, argv.rest[k].arg, arguments,
                          argv.arg_num)
       IN  /\ arguments' = r.args
           /\ argv' = ArgvAfter(k)
           /\ IF r.err THEN Usage ELSE UNCHANGED <<pc, exit_status>>
    /\ ArgpIdle
    /\ UNCHANGED adc

\* ahrs400-read: the command line is used up, parse_opt gets ARGP_KEY_END
\* and argp_parse returns to main
ArgpEnd ==
    /\ pc = "argp_parse"
    /\ argv.rest = <<>>
    /\ LET r == parse_opt(ARGP_KEY_END, NullArg, arguments, argv.arg_num)
       IN  /\ arguments' = r.args
           /\ IF r.err THEN Usage
              ELSE pc' = "main" /\ exit_status' = exit_status
    /\ ArgpIdle
    /\ UNCHANGED <<argv, adc>>

\* vcmdas1-read: argp_parse hands one word of the command line to parse_opt
AdcArgpParse ==
    /\ pc = "adc_argp_parse"
    /\ argv.rest # <<>>
    /\ LET k == NextWord(argv.rest)
           r == adc_parse_opt(argv.rest[k].key, argv.rest[k].arg, arguments,
                              argv.arg_num)
       IN  /\ arguments' = r.args
           /\ argv' = ArgvAfter(k)
           /\ IF r.err THEN Usage ELSE UNCHANGED <<pc, exit_status>>
    /\ ArgpIdle
    /\ UNCHANGED adc

\* vcmdas1-read: the command line is used up and argp_parse returns to
\* main; the read loop finds arguments.verbose in adc.verbose
AdcArgpEnd ==
    /\ pc = "adc_argp_parse"
    /\ argv.rest = <<>>
    /\ LET r == adc_parse_opt(ARGP_KEY_END, NullArg, arguments, argv.arg_num)
       IN  /\ arguments' = r.args
           /\ adc' = [adc EXCEPT !.verbose = r.args.verbose]
    /\ pc' = "adc_main"
    /\ ArgpIdle
    /\ UNCHANGED <<argv, exit_status>>

\* the numbers and the text given where a number is expected
NumArgs == {Str(768, ""), Str(65535, ""), Str(65536, ""), Str(768, "x")}

Word(key, arg) == [key |-> key, arg |-> arg]

\* the words of a command line of ahrs400-read
AhrsWords ==
    {Word("t", Str(0, "FILE")), Word("b", Str(0, "FILE")),
     Word("u", NullArg), Word("h", Str(10, ".0.0.1")),
     Word(ARGP_KEY_ARG, Str(0, "/dev/ttyS0"))}
       \cup {Word("p", n) : n \in NumArgs}

\* the words of a command line of vcmdas1-read
AdcWords ==
    {Word("t", Str(0, "FILE")), Word("b", Str(0, "FILE")),
     Word("v", NullArg), Word("u", NullArg), Word("u", Str(10, ".0.0.1"))}
       \cup {Word("p", n) : n \in NumArgs}
       \cup {Word(ARGP_KEY_ARG, n) : n \in NumArgs}

\* the command lines of at most MaxArgs words
CommandLines(words) ==
    UNION {[1..n -> words] : n \in 0..MaxArgs}

\* either reader at the entry of main
InitArgs ==
    /\ ProcessState
    /\ failing = {}
    /\ adc = NoSample
    /\ \/ /\ pc = "argp_parse"
          /\ arguments = AhrsDefaults
          /\ \E line \in CommandLines(AhrsWords) :
                argv = [rest |-> line, arg_num |-> 0]
       \/ /\ pc = "adc_argp_parse"
          /\ arguments = AdcDefaults
          /\ \E line \in CommandLines(AdcWords) :
                argv = [rest |-> line, arg_num |-> 0]

\* argp_parse, then open_output_streams
NextArgs ==
    \/ ArgpParse
    \/ ArgpEnd
    \/ AdcArgpParse
    \/ AdcArgpEnd
    \/ OpenOutputStreams
    \/ OpenOutputStreamsFail
    \/ AdcOpenOutputStreams
    \/ AdcOpenOutputStreamsFail

SpecArgs == InitArgs /\ [][NextArgs]_vars

(***************************************************************************)
(* Helpers of the properties.                                              *)
(***************************************************************************)
\* w[0] + ... + w[n-1], without wrapping
RECURSIVE SumTo(_, _)
SumTo(w, n) == IF n = 0 THEN 0 ELSE SumTo(w, n - 1) + w[n - 1]

\* s[a] + ... + s[b] of a sequence, without wrapping
RECURSIVE SumSeq(_, _, _)
SumSeq(s, a, b) == IF a > b THEN 0 ELSE s[a] + SumSeq(s, a + 1, b)

\* the first n bytes of a buffer
Prefix(w, n) == [j \in 0..(n - 1) |-> w[j]]

\* the checksum check of the current step fails
Mismatch == pc = "check" /\ SumTo(work, size) % 256 # work[size]

\* offsets of the whole work buffer that hold 0xFF
AllHeaderOffsets == {j \in 0..size : work[j] = 255}

(***************************************************************************)
(* C1: at every checksum check the work buffer holds the size+1 bytes      *)
(* that followed a header byte 0xFF in the stream, and the call returns 0  *)
(* with exactly the first size bytes copied to the caller's payload if and *)
(* only if their sum mod 256 equals the trailing byte; the header byte is  *)
(* not part of the sum.                                                    *)
(***************************************************************************)
C1_AcceptIffChecksum ==
    /\ [][pc = "check" =>
            /\ (pc' = "ret" /\ ret' = 0) <=> (SumTo(work, size) % 256 = work[size])
            /\ (pc' = "ret") => (ret' = 0 /\ payload' = Prefix(work, size))
            /\ (pc' # "ret") => (payload' = payload)]_vars
    /\ [](pc = "check" =>
            /\ Len(stream) >= size + 2
            /\ stream[Len(stream) - size - 1] = 255
            /\ \A j \in 0..size : work[j] = stream[Len(stream) - size + j])

\* a frame whose payload sum exceeds 8 bits was accepted
C1_Witness ==
    /\ pc = "ret" /\ ret = 0
    /\ SumTo(payload, size) >= 256
    /\ size >= 2

(***************************************************************************)
(* C2: resync scenario.  When the stream starts with 0xFF, a corrupt       *)
(* payload (no 0xFF, checksum failing against the byte after it), 0xFF, a  *)
(* valid payload and its checksum, the first call returns 0 exactly once,  *)
(* with the valid payload, after exactly one resync, having read exactly   *)
(* the 2*size+3 bytes of the scenario, each once.                          *)
(***************************************************************************)
IsResyncScenario(s, n) ==
    /\ Len(s) >= 2 * n + 3
    /\ s[1] = 255
    /\ \A k \in 2..(n + 1) : s[k] # 255
    /\ s[n + 2] = 255
    /\ SumSeq(s, 2, n + 1) % 256 # s[n + 2]
    /\ SumSeq(s, n + 3, 2 * n + 2) % 256 = s[2 * n + 3]

\* the scenario was delivered and the check of its last byte was made
ScenarioDone ==
    /\ IsResyncScenario(stream, size)
    /\ ~(Len(stream) = 2 * size + 3 /\ pc = "check" /\ call.n = 1)

C2_ResyncScenario ==
    ScenarioDone =>
        /\ Len(frames) >= 1
        /\ frames[1].payload = [j \in 0..(size - 1) |-> stream[size + 3 + j]]
        /\ frames[1].resyncs = 1
        /\ frames[1].call = 1
        /\ frames[1].start = 0
        /\ frames[1].end = 2 * size + 3
        /\ Cardinality({k \in 1..Len(frames) : frames[k].call = 1}) = 1

C2_Witness ==
    /\ ScenarioDone
    /\ size >= 2
    /\ Len(stream) = 2 * size + 3
    /\ pc = "ret" /\ ret = 0

(***************************************************************************)
(* C3: partial resync.  When the checksum fails and the first 0xFF of the  *)
(* work buffer is at offset i, the bytes at offsets i+1..size move to      *)
(* offsets 0..size-i-1 in order, the next read asks the source for exactly *)
(* i+1 bytes, placed at offsets size-i..size, the live stream is not       *)
(* scanned, and the byte at offset i is the header of the new candidate:   *)
(* a returned payload is the size bytes that follow a 0xFF in the stream   *)
(* and never contains that header position.                                *)
(***************************************************************************)
C3_PartialResync ==
    /\ [][(Mismatch /\ AllHeaderOffsets # {}) =>
            LET i == MinOf(AllHeaderOffsets)
            IN  /\ \A k \in 0..(size - i - 1) : work'[k] = work[i + 1 + k]
                /\ work_ptr' = size - i
                /\ fill' = size - i
                /\ size + 1 - fill' = i + 1
                /\ pc' = "fread"
                /\ header_found'
                /\ stream' = stream /\ reads' = reads]_vars
    /\ [][(pc = "fread" /\ pc' = "fread") =>
            /\ Len(stream') = Len(stream) + 1
            /\ work' = [work EXCEPT ![fill] = stream'[Len(stream')]]
            /\ fill' = fill + 1]_vars
    /\ [](\A k \in 1..Len(frames) :
            LET f == frames[k]
            IN  /\ f.end - size - 1 >= 1
                /\ stream[f.end - size - 1] = 255
                /\ f.hdr = f.end - size - 1
                /\ f.payload = [j \in 0..(size - 1) |-> stream[f.end - size + j]])

\* a frame was accepted after a partial resync that kept bytes of the buffer
C3_Witness ==
    /\ pc = "ret" /\ ret = 0
    /\ resync.kind = "partial"
    /\ resync.offset < size
    /\ resync.offset > 0

(***************************************************************************)
(* C4 as stated: a 0xFF at offset 0 of the work buffer is never chosen as  *)
(* the resync point.                                                       *)
(***************************************************************************)
C4_NeverOffsetZero == ~(resync.kind = "partial" /\ resync.offset = 0)

(***************************************************************************)
(* C4 amended: the rescan after a checksum mismatch covers all size+1      *)
(* offsets of the work buffer, offset 0 included: the resync point is the  *)
(* lowest offset in 0..size that holds 0xFF, so a 0xFF at offset 0 is      *)
(* always the one chosen.                                                  *)
(***************************************************************************)
C4_RescanFromZero ==
    [][(Mismatch /\ AllHeaderOffsets # {}) =>
          /\ resync'.kind = "partial"
          /\ resync'.offset = MinOf(AllHeaderOffsets)
          /\ (work[0] = 255 => resync'.offset = 0)
          /\ fill' = size - MinOf(AllHeaderOffsets)]_vars

\* a frame was accepted whose header had been at offset 0 of the work buffer
C4_Witness ==
    /\ pc = "ret" /\ ret = 0
    /\ resync.kind = "partial"
    /\ resync.offset = 0
    /\ resync.count = 1

(***************************************************************************)
(* C5: after a checksum mismatch with no 0xFF in the work buffer nothing   *)
(* of the buffer is retained: the next bytes of the source go to the       *)
(* byte-by-byte header scan, and the payload read that follows the scan    *)
(* starts at offset 0 and refills all size+1 bytes.                        *)
(***************************************************************************)
C5_FullResync ==
    /\ [][(Mismatch /\ AllHeaderOffsets = {}) =>
            /\ pc' = "search"
            /\ work_ptr' = 0
            /\ ~header_found'
            /\ stream' = stream]_vars
    /\ [][(pc = "search" /\ pc' = "fread") =>
            /\ stream' = Append(stream, 255)
            /\ fill' = 0
            /\ work_ptr' = 0]_vars
    /\ [][(pc = "search" /\ stream' # stream) => work' = work]_vars

\* a full rescan followed a partial resync, and a header was then found
C5_Witness ==
    /\ pc = "fread"
    /\ resync.kind = "full"
    /\ resync.count >= 2
    /\ cand.from = "scan"

(***************************************************************************)
(* C6: end-to-end zero frame.  With payload length 28, the stream 0xFF,    *)
(* 28 zero bytes, 0x00 is accepted at the first checksum check: no resync, *)
(* exactly 30 bytes consumed, payload 28 zero bytes; the conversion sees   *)
(* raw value 0 in all 14 fields, so angles, rates, accelerations, magnetic *)
(* components and sensor time are 0 and the temperature is                 *)
(* (0 - 1.375) * 44.44 = -61.105 = -12221/200.                             *)
(***************************************************************************)
ZeroFrameDelivered ==
    /\ size = 28
    /\ Len(stream) >= 30
    /\ stream[1] = 255
    /\ \A k \in 2..30 : stream[k] = 0
    /\ ~(Len(stream) = 30 /\ pc = "check" /\ call.n = 1)

IsZero(r) == r.num = 0 /\ r.den # 0

C6_ZeroFrame ==
    /\ ZeroFrameDelivered =>
          /\ Len(frames) >= 1
          /\ frames[1].payload = [j \in 0..27 |-> 0]
          /\ frames[1].resyncs = 0
          /\ frames[1].call = 1
          /\ frames[1].start = 0
          /\ frames[1].end = 30
          /\ \A k \in 0..13 : pack_int16(frames[1].payload, k) = 0
    /\ (ZeroFrameDelivered /\ call.n = 1 /\ pc = "loop") =>
          /\ \A k \in 0..2 :
                /\ IsZero(data.angle[k])
                /\ IsZero(data.gyro[k])
                /\ IsZero(data.accel[k])
                /\ IsZero(data.mag[k])
          /\ IsZero(data.sensor_time)
          /\ data.temperature.num * 200 = (-12221) * data.temperature.den
          /\ data.temperature.den > 0
          /\ data.temperature.exp10 = 0

\* the zero frame, and nothing else, was read and converted
C6_Witness ==
    /\ ZeroFrameDelivered
    /\ Len(stream) = 30
    /\ call.n = 1
    /\ pc = "loop"
    /\ Len(frames) = 1

(***************************************************************************)
(* C7: when the source reports end-of-stream or an error, during the       *)
(* header scan or during the payload read, ahrs_get_msg returns -1 with no *)
(* further read, and the main loop then ends the process with a non-zero   *)
(* exit status without another sink write.                                 *)
(***************************************************************************)
C7_EofIsFatal ==
    /\ [][(eof' /\ ~eof) =>
            /\ pc \in {"search", "fread"}
            /\ pc' = "ret"
            /\ ret' = -1
            /\ reads' = reads + 1
            /\ written' = written]_vars
    /\ [][eof =>
            /\ pc = "ret"
            /\ pc' = "exited"
            /\ exit_status' = 1
            /\ reads' = reads
            /\ stream' = stream
            /\ written' = written
            /\ frames' = frames]_vars
    /\ [](eof => pc \in {"ret", "exited"})
    /\ [](pc = "exited" => exit_status = 1)

\* the process exited after an end-of-stream in the middle of a payload
\* read that followed an emitted frame
C7_Witness ==
    /\ pc = "exited"
    /\ eof
    /\ written.bin > 0
    /\ fill > 0 /\ fill <= size

(***************************************************************************)
(* C8: a checksum mismatch is never reported to the caller: after a        *)
(* mismatch the call goes on reading (header scan or refill), it returns   *)
(* -1 only after the source reported end-of-stream or an error.            *)
(***************************************************************************)
C8_MismatchNotReported ==
    /\ [][Mismatch =>
            /\ pc' \in {"search", "fread"}
            /\ ret' = ret
            /\ exit_status' = exit_status
            /\ resync'.count = resync.count + 1]_vars
    /\ []((pc = "ret" /\ ret # 0) => eof)

\* a frame was accepted after three consecutive checksum mismatches
C8_Witness ==
    /\ pc = "ret" /\ ret = 0
    /\ resync.count >= 3

(***************************************************************************)
(* C9 as stated: the timestamp of an accepted frame is the clock reading   *)
(* at the moment its header byte was read from the source, also after a    *)
(* partial resync.                                                         *)
(***************************************************************************)
C9_StampAtHeaderRead ==
    \A k \in 1..Len(frames) :
        frames[k].ts = get_time_us(0, ClockAt(frames[k].end - size - 1))

(***************************************************************************)
(* C9 amended: the timestamp of an accepted frame is assigned in the loop  *)
(* iteration that accepts it and is the clock reading at the moment its    *)
(* header was detected: when the header scan read it from the source, or,  *)
(* after a partial resync, when the rescan found it in the work buffer,    *)
(* which is size - i byte times after it was read (i its offset).          *)
(***************************************************************************)
C9_StampAtHeaderDetection ==
    \A k \in 1..Len(frames) :
        LET f == frames[k]
            h == f.end - size - 1
        IN  /\ f.from \in {"scan", "buffer"}
            /\ f.from = "scan" =>
                  /\ f.ts = get_time_us(0, ClockAt(h))
                  /\ (f.resyncs = 0 \/ f.last.kind = "full")
            /\ f.from = "buffer" =>
                  /\ f.last.kind = "partial"
                  /\ f.last.at = h + (size - f.last.offset)
                  /\ f.ts = get_time_us(0, ClockAt(f.last.at))

\* a frame was accepted whose header was found inside the work buffer,
\* before the end of it
C9_Witness ==
    /\ pc = "ret" /\ ret = 0
    /\ cand.from = "buffer"
    /\ resync.offset < size

(***************************************************************************)
(* C10: the timestamp returned with an accepted frame is the one captured  *)
(* in the loop iteration whose checksum check succeeds, after the most     *)
(* recent resync and before the last read of the frame's bytes, and is     *)
(* none of the timestamps captured for the rejected candidates.            *)
(***************************************************************************)
C10_StampOfAcceptingIteration ==
    \A k \in 1..Len(frames) :
        LET f == frames[k]
        IN  /\ f.ts = get_time_us(0, f.at)
            /\ f.ts \notin f.rejected
            /\ \E p \in f.start..(f.end - 1) :
                  /\ f.at = ClockAt(p)
                  /\ f.resyncs > 0 => p >= f.last.at
            /\ Cardinality(f.rejected) = f.resyncs

\* a frame was accepted after two candidates were rejected
C10_Witness ==
    /\ pc = "ret" /\ ret = 0
    /\ resync.count >= 2
    /\ Cardinality(rejected) >= 2

(***************************************************************************)
(* C11: get_time_us returns the clock reading in microseconds since the    *)
(* epoch, tv_sec * 1000000 + tv_nsec div 1000; stated of the timestamp of  *)
(* every accepted frame and the clock reading it was taken from.           *)
(***************************************************************************)
C11_MicrosecondsSinceEpoch ==
    \A k \in 1..Len(frames) :
        frames[k].ts = frames[k].at.tv_sec * 1000000
                         + (frames[k].at.tv_nsec \div 1000)

(***************************************************************************)
(* Helpers of the start-up properties.                                     *)
(***************************************************************************)
IsPrefixOf(a, b) == Len(a) <= Len(b) /\ \A k \in 1..Len(a) : a[k] = b[k]

\* the command bytes written to the device so far, in order
CommandsWritten ==
    LET w == SelectSeq(hs, LAMBDA e : e.ev = "write" /\ e.rc = 0)
    IN  [k \in 1..Len(w) |-> w[k].byte]

\* the writes and reads of the start-up, in order
Exchanges == SelectSeq(hs, LAMBDA e : e.ev \in {"write", "read"})

\* the start-up is over: the read loop was entered
HandshakeDone == pc \in {"loop", "search", "fread", "check", "ret"}
                    \/ call.n > 0

(***************************************************************************)
(* C12: 'C' is written to the device only after 'P' was written, then      *)
(* 'R' was written and answered with 'H', then 'a' was written and         *)
(* answered with 'A', in this order; the commands written before the       *)
(* first frame read are a prefix of P, R, a, C, and no command is written  *)
(* once frames are read.                                                   *)
(***************************************************************************)
C12_ContinuousAfterConfirmedMode ==
    /\ [](IsPrefixOf(CommandsWritten, <<80, 82, 97, 67>>))
    /\ [](67 \in {CommandsWritten[k] : k \in 1..Len(CommandsWritten)} =>
            /\ Len(Exchanges) = 6
            /\ [k \in 1..6 |-> <<Exchanges[k].ev, Exchanges[k].byte>>]
                  = << <<"write", 80>>, <<"write", 82>>, <<"read", 72>>,
                       <<"write", 97>>, <<"read", 65>>, <<"write", 67>> >>)
    /\ [](call.n > 0 => CommandsWritten = <<80, 82, 97, 67>>)
    /\ [][call.n > 0 => hs' = hs]_vars

\* a frame was accepted after the four commands
C12_Witness ==
    /\ Len(frames) = 1
    /\ CommandsWritten = <<80, 82, 97, 67>>
    /\ pc = "ret"

C14_AnyFailureAborts ==
    \A k \in 1..Len(hs) :
        hs[k].rc # 0
        => /\ k = Len(hs)
           /\ pc = "exited"
           /\ exit_status # 0
           /\ call.n = 0

(***************************************************************************)
(* C14: when a step of the start-up other than the purge fails (writing    *)
(* the polled-mode command, ping, setting the mode, writing the            *)
(* continuous-mode command), the program has exited with a non-zero        *)
(* status, no later step was executed and no frame was read; a failed      *)
(* purge does not stop the start-up, which goes on with the ping.          *)
(***************************************************************************)
C14_FailureAbortsExceptPurge ==
    /\ [](\A k \in 1..Len(hs) :
            (hs[k].rc # 0 /\ hs[k].ev # "purge")
            => /\ k = Len(hs)
               /\ pc = "exited"
               /\ exit_status # 0
               /\ call.n = 0)
    /\ [][pc = "purge" => pc' = "ping" /\ exit_status' = exit_status]_vars

\* the purge failed, the start-up went on and failed at the last command
C14_Witness ==
    /\ pc = "exited"
    /\ Len(hs) = 7
    /\ hs[2].ev = "purge" /\ hs[2].rc = -1
    /\ hs[7].step = "continuous" /\ hs[7].rc = -1

(***************************************************************************)
(* C15: when the byte read after the ping is not 'H', or the byte read     *)
(* after the angle-mode command is not 'A', or that read hits              *)
(* end-of-stream or an error, no further command byte is written, no       *)
(* frame is read and the process exits with a non-zero status; the ping    *)
(* and the mode setting each make one read, consuming one response byte.   *)
(***************************************************************************)
C15_BadResponseFails ==
    /\ [](\A k \in 1..Len(hs) :
            (hs[k].ev = "read"
               /\ hs[k].byte # (IF hs[k].step = "ping" THEN 72 ELSE 65))
            => /\ k = Len(hs)
               /\ pc = "exited"
               /\ exit_status # 0
               /\ call.n = 0
               /\ reads = hs[k].reads + 1)
    /\ [][(pc = "exited" /\ call.n = 0) => (hs' = hs /\ call' = call)]_vars
    /\ [][(pc = "ping_read" \/ pc = "mode_read") =>
            /\ reads' = reads + 1
            /\ Len(stream') <= Len(stream) + 1
            /\ ~(pc' \in {"ping_read", "mode_read"})]_vars
    /\ [](\A st \in {"ping", "mode"} :
            Cardinality({k \in 1..Len(hs) :
                           hs[k].ev = "read" /\ hs[k].step = st}) <= 1)
    /\ [](call.n > 0 =>
            /\ call.start >= 2
            /\ <<stream[1], stream[2]>> = <<72, 65>>
            /\ reads >= 2)
    /\ [](call.n = 1 => call.start = 2)

\* the mode command was answered with 'H'
C15_Witness ==
    /\ pc = "exited"
    /\ Len(hs) = 6
    /\ hs[6].ev = "read" /\ hs[6].step = "mode" /\ hs[6].byte = 72
    /\ stream = <<72, 72>>

(***************************************************************************)
(* C16: ahrs_purge is called after the polled-mode command was written     *)
(* and before the first read of the device stream: no ping response, mode  *)
(* response or frame byte is read before the purge.                        *)
(***************************************************************************)
C16_PurgeBeforeFirstRead ==
    /\ [](reads > 0 => \E k \in 1..Len(hs) : hs[k].ev = "purge")
    /\ [](\A k \in 1..Len(hs) :
            hs[k].ev = "purge"
            => /\ hs[k].reads = 0
               /\ \E j \in 1..(k - 1) :
                     hs[j].ev = "write" /\ hs[j].byte = 80 /\ hs[j].rc = 0)
    /\ [][reads = 0 /\ reads' > 0 =>
            \E k \in 1..Len(hs) : hs[k].ev = "purge"]_vars

\* the ping response is read after a purge that failed
C16_Witness ==
    /\ reads = 1
    /\ Len(stream) = 1
    /\ \E k \in 1..Len(hs) : hs[k].ev = "purge" /\ hs[k].rc = -1

(***************************************************************************)
(* Helpers of the sink properties.                                         *)
(***************************************************************************)
\* the process is vcmdas1-read
IsAdc == pc \in {"adc_main", "adc_setup", "adc_wait"} \/ adc.io > 0

\* records (frames, samples) whose turn of the loop is over
Processed ==
    IF IsAdc THEN adc.tick
    ELSE IF pc = "ret" /\ ret = 0 THEN Len(frames) - 1 ELSE Len(frames)

\* the write attempts of a log for record rec on a sink
AttemptsOf(log, sink, rec) ==
    SelectSeq(log, LAMBDA e : e.sink = sink /\ e.rec = rec)

\* the write attempts one turn of the loop makes for record rec when the
\* sinks of bad fail
Fanout(bad, rec) ==
    IF IsAdc
    THEN adc_log_text(
            adc_log_text(output_adc_raw(<<>>, out, bad, rec),
                         out.text_log, bad, "text", rec),
            adc.verbose, bad, "stdout", rec)
    ELSE log_text(output_angle(output_angle_raw(<<>>, out, bad, rec),
                               out, bad, rec),
                  out, bad, rec)

\* number of writes a sink gets for one record when it works
WritesPerRecord(sink) ==
    IF sink = "text" THEN 1 ELSE IF IsAdc THEN 1 ELSE 2

(***************************************************************************)
(* C17: fan-out isolation.  In both read loops, for configured sinks A     *)
(* and B among text log, binary log and UDP socket, when every write to    *)
(* A fails and the writes to B succeed, B gets for every record the        *)
(* writes it gets when A does not fail, all of them successful, and a      *)
(* step that makes sink writes, failed ones included, returns to the head  *)
(* of the loop: it never ends the loop or the process.                     *)
(***************************************************************************)
C17_FanoutIsolation ==
    /\ [](\A A \in Configured(arguments) \cap failing :
          \A B \in Configured(arguments) \ failing :
             \A r \in 1..Processed :
                /\ AttemptsOf(sinklog, B, r)
                      = AttemptsOf(Fanout(failing \ {A}, r), B, r)
                /\ Len(AttemptsOf(sinklog, B, r)) = WritesPerRecord(B)
                /\ \A k \in 1..WritesPerRecord(B) :
                      AttemptsOf(sinklog, B, r)[k].ok
                /\ Len(AttemptsOf(sinklog, A, r)) = WritesPerRecord(A)
                /\ \A k \in 1..WritesPerRecord(A) :
                      ~AttemptsOf(sinklog, A, r)[k].ok)
    /\ [][(pc \in {"ret", "adc_wait"} /\ sinklog' # sinklog) =>
            /\ pc' \in {"loop", "adc_wait"}
            /\ exit_status' = exit_status]_vars
    /\ [][(pc' = "exited" /\ pc # "exited" /\ Processed > 0) =>
            (pc = "ret" /\ ret # 0) \/ exit_status' = KilledBySignal]_vars

\* two frames went through the loop with the binary log failing and the
\* socket and the text log working
C17_Witness ==
    /\ ~IsAdc
    /\ Processed = 2
    /\ failing = {"bin"}
    /\ Configured(arguments) = {"text", "bin", "udp"}
    /\ pc = "search"

(***************************************************************************)
(* C18: for every accepted frame, whatever the outcome of earlier writes,  *)
(* each configured sink is attempted a fixed number of times (binary log   *)
(* twice, UDP twice, text log once) and a sink that was not configured is  *)
(* never written.                                                          *)
(***************************************************************************)
C18_FixedAttempts ==
    \A r \in 1..Processed :
       \A s \in Sinks :
          Len(AttemptsOf(sinklog, s, r))
             = IF s \in Configured(arguments)
               THEN (IF s = "text" THEN 1 ELSE 2)
               ELSE 0

(***************************************************************************)
(* C19: per-sink ordering.  The write attempts appear in the order of the  *)
(* frames they are made for: every write for a frame precedes every write  *)
(* for a frame accepted later, and a write for a frame is made only when   *)
(* that frame is the last one accepted.                                    *)
(***************************************************************************)
C19_RecordOrder ==
    /\ [](\A i, j \in 1..Len(sinklog) :
            i < j => sinklog[i].rec <= sinklog[j].rec)
    /\ [](\A k \in 1..Len(sinklog) : sinklog[k].rec <= Len(frames))
    /\ [][\A k \in (Len(sinklog) + 1)..Len(sinklog') :
            \/ pc = "main" /\ sinklog'[k].rec = 0
            \/ /\ Len(frames) >= 1
               /\ sinklog'[k].rec = Len(frames)
               /\ frames' = frames
               /\ pc = "ret" /\ ret = 0]_vars
    /\ [][frames' # frames => sinklog' = sinklog]_vars

\* the second frame has been written to the text log and the binary log
C19_Witness ==
    /\ Len(frames) = 2
    /\ Len(AttemptsOf(sinklog, "text", 1)) = 1
    /\ Len(AttemptsOf(sinklog, "text", 2)) = 1
    /\ Len(AttemptsOf(sinklog, "bin", 2)) = 2

C21_ConfigFailureBeforeDeviceIO ==
    /\ [][((pc = "main" \/ pc = "adc_main") /\ pc' = "exited") =>
            /\ exit_status' # 0
            /\ hs' = <<>> /\ reads' = 0 /\ stream' = <<>> /\ call'.n = 0
            /\ adc'.io = 0
            /\ \E failAt \in OpenSteps(arguments) :
                  /\ ~open_output_streams(arguments, fds, failing, failAt).ok
                  /\ fds' = open_output_streams(arguments, fds, failing,
                                                failAt).fds]_vars
    /\ [][(pc = "main" \/ pc = "adc_main") =>
            (pc' = "exited" \/ pc' = "ahrs_open" \/ pc' = "adc_setup")]_vars
    /\ [][pc = "exited" => FALSE]_vars
    /\ [](pc \in {"ahrs_open", "adc_setup"} =>
            /\ out.text_log = arguments.text_log
            /\ out.binary_log = arguments.binary_log
            /\ arguments.use_udp <=> out.udp_sock >= 0
            /\ hs = <<>> /\ reads = 0 /\ adc.io = 0)

\* the text log was opened, the binary log could not be: exit before any
\* device I/O
C21_Witness ==
    /\ pc = "exited"
    /\ exit_status = 1
    /\ arguments.binary_log /\ ~out.binary_log /\ out.text_log
    /\ hs = <<>> /\ adc.io = 0

(***************************************************************************)
(* Helpers of the conversion properties.                                   *)
(***************************************************************************)
\* field k of a payload as a 16-bit two's-complement value, high byte first
TwosComplement(p, k) ==
    IF p[2 * k] < 128 THEN 256 * p[2 * k] + p[2 * k + 1]
    ELSE 256 * p[2 * k] + p[2 * k + 1] - 65536

(***************************************************************************)
(* C22: ahrs_parse_angle takes raw field k (0..13) of the payload from     *)
(* bytes 2k (most significant) and 2k+1 as a 16-bit two's-complement       *)
(* value; fields 0-2 feed the angles, 3-5 the rates, 6-8 the               *)
(* accelerations, 9-11 the magnetic components, 12 the temperature, 13     *)
(* the sensor time, and no output depends on any other byte.               *)
(***************************************************************************)
C22_FieldLayout ==
    pc = "parsed" =>
       /\ \A k \in 0..13 :
             /\ pack_int16(payload, k) = TwosComplement(payload, k)
             /\ pack_int16(payload, k) \in -32768..32767
       /\ \A k \in 0..2 :
             /\ data.angle[k] = raw_to_angle(TwosComplement(payload, k))
             /\ data.gyro[k] = raw_to_gyro(TwosComplement(payload, 3 + k))
             /\ data.accel[k] = raw_to_accel(TwosComplement(payload, 6 + k))
             /\ data.mag[k] = raw_to_mag(TwosComplement(payload, 9 + k))
       /\ data.temperature = raw_to_temperature(TwosComplement(payload, 12))
       /\ data.sensor_time = raw_to_time(TwosComplement(payload, 13))
       /\ {2 * k : k \in 0..13} \cup {2 * k + 1 : k \in 0..13}
             = DOMAIN payload

\* the temperature field holds a negative value over a background of 0xFF
C22_Witness ==
    /\ pc = "parsed"
    /\ payload[24] = 128 /\ payload[25] = 1 /\ payload[0] = 255
    /\ data.temperature = raw_to_temperature(-32767)
    /\ data.angle[0].num = -1

(***************************************************************************)
(* C23: for every 16-bit signed raw value the angle raw * pi / 32768 lies  *)
(* within [-pi, pi]: |raw| / 32768 never exceeds 1, -pi is produced        *)
(* exactly for raw = -32768, and +pi for no raw value.                     *)
(***************************************************************************)
C23_AngleRange ==
    pc = "parsed" =>
       \A k \in 0..2 :
          LET a == data.angle[k]
          IN  /\ a.den > 0 /\ a.exp10 = 0
              /\ -a.den <= a.num /\ a.num <= a.den
              /\ a.num = -a.den <=> TwosComplement(payload, k) = -32768
              /\ a.num # a.den

\* the first angle is -pi
C23_Witness ==
    /\ pc = "parsed"
    /\ payload[0] = 128 /\ payload[1] = 0
    /\ data.angle[0].num = -data.angle[0].den

(***************************************************************************)
(* C24: in mavlink-logger and mavlog, a read of the serial port that       *)
(* returns end-of-stream or fails is fatal: the loop makes no further      *)
(* read, the process terminates with a non-zero status.                    *)
(***************************************************************************)
C24_ReadEndIsFatal ==
    [][((pc = "logger_loop" \/ pc = "mavlog_loop")
          /\ reads' = reads + 1 /\ stream' = stream)
         => (pc' = "exited" /\ exit_status' # 0)]_vars

(***************************************************************************)
(* C25: read_adc returns -1 whenever the DONE bit is clear in the status   *)
(* register read after the channel is selected, and returns 0, the value   *)
(* stored, only when the bit is set: a tick during which the status of     *)
(* some channel has the DONE bit clear ends read_all with -1 at the first  *)
(* such channel.                                                           *)
(***************************************************************************)
C25_DoneBitClearIsError ==
    (adc.tick > 0 /\ adc.notdone # {})
        => (adc.rc = -1 /\ adc.nread = MinOf(adc.notdone))

(***************************************************************************)
(* C26: in ahrs400-read, --udp-host implies --udp: when argp_parse has     *)
(* returned from a command line that had -h HOST in it, use_udp is true,   *)
(* and once open_output_streams has returned the UDP socket is open.       *)
(***************************************************************************)
C26_HostImpliesUdp ==
    ((pc = "main" \/ pc = "ahrs_open")
       /\ arguments.udp_host # AhrsDefaults.udp_host)
        => /\ arguments.use_udp
           /\ pc = "ahrs_open" => out.udp_sock # NoStreams.udp_sock

(***************************************************************************)
(* C27: in vcmdas1-read, -p VALUE sets the UDP port to VALUE, is rejected  *)
(* when VALUE is above 65535, and leaves the base address as it was; the   *)
(* positional argument sets the base address and leaves the UDP port as    *)
(* it was.                                                                 *)
(***************************************************************************)
C27_PortAndBaseAddress ==
    [][(pc = "adc_argp_parse" /\ argv.rest # <<>>)
         => LET w == argv.rest[NextWord(argv.rest)]
                v == strtoul(w.arg).value
            IN  /\ (w.key = "p" /\ v > 65535) => pc' = "exited"
                /\ (w.key = "p" /\ pc' # "exited")
                     => /\ arguments'.udp_port = v
                        /\ arguments'.base_address = arguments.base_address
                /\ (w.key = ARGP_KEY_ARG /\ pc' # "exited")
                     => /\ arguments'.base_address = v
                        /\ arguments'.udp_port = arguments.udp_port]_vars

(***************************************************************************)
(* C28: no candidate frame is skipped.  A call of ahrs_get_msg that starts *)
(* reading after the first p bytes of the stream and returns 0 accepts the *)
(* frame whose header is at the smallest position k > p such that          *)
(* stream[k] = 0xFF and the size+1 bytes after k satisfy the checksum; and *)
(* the header candidates of a call are taken in stream order, each one the *)
(* first 0xFF byte after the candidate rejected before it (after p for the *)
(* first), so that every 0xFF byte between p and k was examined and        *)
(* rejected.                                                               *)
(***************************************************************************)
IsFrameAt(s, k, n) ==
    /\ k >= 1
    /\ k + n + 1 <= Len(s)
    /\ s[k] = AHRS_DATA_HEADER
    /\ SumSeq(s, k + 1, k + n) % 256 = s[k + n + 1]

C28_NoCandidateSkipped ==
    /\ [](\A f \in 1..Len(frames) :
            LET k == frames[f].end - size - 1
            IN  /\ k > frames[f].start
                /\ IsFrameAt(stream, k, size)
                /\ frames[f].payload = [j \in 0..(size - 1) |-> stream[k + 1 + j]]
                /\ \A j \in (frames[f].start + 1)..(k - 1) :
                      ~IsFrameAt(stream, j, size))
    /\ [][cand'.iter = cand.iter + 1
            => LET from == IF cand.iter = 0 THEN call.start ELSE cand.hdr
               IN  /\ cand'.hdr > from
                   /\ stream'[cand'.hdr] = AHRS_DATA_HEADER
                   /\ \A j \in (from + 1)..(cand'.hdr - 1) :
                         stream'[j] # AHRS_DATA_HEADER
                   /\ cand.iter > 0
                        => ~IsFrameAt(stream', cand.hdr, size)]_vars
    /\ [][(pc = "check" /\ pc' = "ret" /\ ret' = 0)
            => cand.hdr = Len(stream) - size - 1]_vars

\* a frame accepted after a 0xFF byte that was not its header
C28_Witness ==
    \E f \in 1..Len(frames) :
       /\ frames[f].resyncs >= 2
       /\ \E j \in (frames[f].start + 1)..(frames[f].end - size - 2) :
             stream[j] = AHRS_DATA_HEADER

(***************************************************************************)
(* C29: alignment of ahrs_get_msg.  At every checksum check, whatever the  *)
(* number of resynchronisations before it, the size+1 bytes of the work    *)
(* buffer are the last size+1 bytes read from the stream, in stream order, *)
(* the byte before them in the stream is 0xFF, and the source has been     *)
(* read once for each byte of the stream.                                  *)
(***************************************************************************)
C29_Alignment ==
    pc = "check"
        => /\ Len(stream) >= size + 2
           /\ stream[Len(stream) - size - 1] = AHRS_DATA_HEADER
           /\ \A j \in 0..size : work[j] = stream[Len(stream) - size + j]
           /\ reads = Len(stream)

\* a check made after a full and a partial resynchronisation
C29_Witness ==
    /\ pc = "check"
    /\ resync.count >= 2
    /\ resync.kind = "partial"
    /\ resync.offset < size

(***************************************************************************)
(* C30: as long as the stream is a concatenation of well-formed frames     *)
(* (0xFF, size payload bytes that may be 0xFF themselves, their checksum)  *)
(* and nothing else, the g-th call of ahrs_get_msg returns 0 with the      *)
(* payload of the g-th frame, makes no resynchronisation, and consumes     *)
(* the size+2 bytes of that frame and no other.                            *)
(***************************************************************************)
FrameStart(g) == (g - 1) * (size + 2) + 1

\* the number of leading well-formed frames the stream is made of so far
WellFormedFrames ==
    Cardinality({m \in 1..(Len(stream) \div (size + 2)) :
                    \A g \in 1..m : IsFrameAt(stream, FrameStart(g), size)})

C30_WellFormedStream ==
    LET m == WellFormedFrames
        pending == IF (pc = "check" /\ Len(stream) = m * (size + 2))
                   THEN 1 ELSE 0
    IN  /\ Len(frames) >= m - pending
        /\ \A g \in 1..(m - pending) :
              /\ frames[g].call = g
              /\ frames[g].start = FrameStart(g) - 1
              /\ frames[g].end = FrameStart(g) + size + 1
              /\ frames[g].resyncs = 0
              /\ frames[g].payload =
                    [j \in 0..(size - 1) |-> stream[FrameStart(g) + 1 + j]]

\* two well-formed frames read, 0xFF in a payload
C30_Witness ==
    /\ WellFormedFrames >= 2
    /\ Len(frames) >= 2
    /\ \E g \in 1..2 : \E j \in 0..(size - 1) :
          frames[g].payload[j] = AHRS_DATA_HEADER

(***************************************************************************)
(* C31: ahrs_get_msg terminates on every finite stream.  Every iteration   *)
(* of its loop reads at least one byte: at a checksum check the stream is  *)
(* longer than it was at the resynchronisation before it (at the entry of  *)
(* the call for the first check); and a call that is under way comes to    *)
(* its return, with 0 or with -1.                                          *)
(***************************************************************************)
C31_Terminates ==
    /\ (pc = "search" \/ pc = "fread" \/ pc = "check") ~> (pc = "ret")
    /\ [](pc = "check"
            => Len(stream) > (IF resync.count > 0 THEN resync.at
                              ELSE call.start))
    /\ [](pc = "ret" => (ret = 0 \/ ret = -1))

\* a call that returned after two resynchronisations
C31_Witness ==
    /\ pc = "ret"
    /\ resync.count >= 2

(***************************************************************************)
(* C32: for every payload length, 256 and more included, after a partial   *)
(* resynchronisation at offset i work_ptr holds size - i, the count of     *)
(* the bytes kept, and the read that follows writes i + 1 bytes, at the    *)
(* offsets size - i to size: the next check is made i + 1 bytes after the  *)
(* resynchronisation.                                                      *)
(***************************************************************************)
C32_RetainedCount ==
    /\ [][(pc = "check" /\ pc' = "fread")
            => /\ work_ptr' = size - resync'.offset
               /\ fill' = size - resync'.offset]_vars
    /\ []((pc = "check" /\ resync.kind = "partial")
            => Len(stream) = resync.at + resync.offset + 1)

(***************************************************************************)
(* C33: timestamps are monotone.  When the clock reading of a later call   *)
(* of get_time_us is not earlier than that of a call before it, its value  *)
(* is not smaller: the timestamps of the frames accepted one after the     *)
(* other never decrease.                                                   *)
(***************************************************************************)
NotEarlier(t, u) ==
    \/ u.tv_sec > t.tv_sec
    \/ (u.tv_sec = t.tv_sec /\ u.tv_nsec >= t.tv_nsec)

C33_TimestampsMonotone ==
    \A k \in 1..Len(frames) : \A l \in k..Len(frames) :
        NotEarlier(frames[k].at, frames[l].at)
            => /\ get_time_us(ClockGettimeRc, frames[k].at)
                    <= get_time_us(ClockGettimeRc, frames[l].at)
               /\ frames[k].ts <= frames[l].ts

(***************************************************************************)
(* C34: in the ahrs_get_msg of src/devices/ahrs400/ahrs400.c the stream is *)
(* scanned for a header exactly when none is pending: before the first     *)
(* payload read of a call, and after a failed checksum with no 0xFF in the *)
(* work buffer; not when a header was found in the work buffer; and no     *)
(* payload byte is read before a header was seen in the call.              *)
(***************************************************************************)
C34_ScanWhenNoHeaderPending ==
    /\ [][(pc = "loop" /\ pc' # "loop") => pc' = "old_search"]_vars
    /\ [][(pc = "old_check" /\ pc' # "old_ret")
            => (pc' = "old_search" <=> AllHeaderOffsets = {})]_vars
    /\ [](pc = "old_fread"
            => \E k \in (call.start + 1)..Len(stream) :
                  stream[k] = AHRS_DATA_HEADER)

(***************************************************************************)
(* C35: the binary transcript of mavlog is at all times a sequence of      *)
(* complete records, a big-endian timestamp immediately followed by the    *)
(* bytes of its message: no timestamp is in the file without its message,  *)
(* no message without its timestamp, also when a write of logwrite fails.  *)
(***************************************************************************)
\* what the writes that succeeded put into the binary log, in order
Transcript == SelectSeq(sinklog, LAMBDA e : e.sink = "bin" /\ e.ok)

C35_CompleteRecords ==
    (pc = "mavlog_loop" \/ pc = "mavlog_main")
        => /\ Len(Transcript) % 2 = 0
           /\ \A k \in 1..Len(Transcript) :
                 IF k % 2 = 1
                 THEN /\ Transcript[k].body = <<TimestampPart>>
                      /\ Transcript[k + 1].rec = Transcript[k].rec
                 ELSE Transcript[k].body = <<MavlinkPart("message")>>

(***************************************************************************)
(* C36: the payload buffer of the caller is written only on the success    *)
(* path of ahrs_get_msg, once in a call, with the size bytes of the frame; *)
(* a call that returns -1 leaves it as it was.                             *)
(***************************************************************************)
C36_PayloadOnlyOnSuccess ==
    /\ [][payload' # payload
            => (pc = "check" /\ pc' = "ret" /\ ret' = 0)]_vars
    /\ [][(pc # "ret" /\ pc' = "ret" /\ ret' = -1)
            => payload' = payload]_vars
    /\ [][(pc # "ret" /\ pc' = "ret" /\ ret' = 0)
            => /\ payload' = [j \in 0..(size - 1) |-> work[j]]
               /\ Len(frames') = Len(frames) + 1]_vars
    /\ [](\A k \in 1..Len(frames) : \A l \in 1..Len(frames) :
             k < l => frames[k].call < frames[l].call)

\* a call returns -1 after bytes were read into the work buffer, the
\* payload still that of the frame accepted by the call before
C36_Witness ==
    /\ pc = "ret"
    /\ ret = -1
    /\ Len(frames) >= 1
    /\ call.n > frames[Len(frames)].call
    /\ Len(stream) > call.start + 1
    /\ payload = frames[Len(frames)].payload
    /\ \E j \in 0..(size - 1) : work[j] # Uninit /\ work[j] # payload[j]

(***************************************************************************)
(* C37: in vcmdas1-read a sample reaches the sinks only if all channels    *)
(* were read with their conversion complete: after a tick during which     *)
(* the DONE bit of some channel was clear, no write attempt was made for   *)
(* the sample of that tick on any sink.                                    *)
(***************************************************************************)
C37_IncompleteSampleNotWritten ==
    (adc.tick > 0 /\ adc.notdone # {})
        => \A k \in 1..Len(sinklog) : sinklog[k].rec # adc.tick

(***************************************************************************)
(* C38: whenever the UDP socket was opened (socket returned a descriptor   *)
(* >= 0 and connect succeeded), output_mavlink_msg attempts one send for   *)
(* every message (two messages for a frame of ahrs400-read, one for a      *)
(* sample of vcmdas1-read); the send is skipped only when no UDP sink was  *)
(* configured, udp_sock being -1.                                          *)
(***************************************************************************)
C38_SendWheneverSocketOpen ==
    \A r \in 1..Processed :
        Len(AttemptsOf(sinklog, "udp", r))
           = IF out.udp_sock = NoStreams.udp_sock THEN 0
             ELSE IF IsAdc THEN 1
             ELSE 2

====
